---- MODULE Spec2Model ----
(***************************************************************************)
(* ChatFlow: the socket event handlers (backend/socket/socketHandler.js,   *)
(* kept as src/unnamed/part_001), the Room and Message models              *)
(* (src/backend/models/Room.js) and the private-room route                 *)
(* (backend/routes/users.js, kept as src/unnamed/part_002).                *)
(*                                                                         *)
(* An async handler is a task: the step that receives the event runs the   *)
(* synchronous prefix of the handler, and every later step performs one    *)
(* awaited store call together with the code that follows it up to the     *)
(* next await.  Steps of different tasks interleave freely, as they do on  *)
(* the Node event loop.                                                    *)
(***************************************************************************)
EXTENDS Integers, Sequences, FiniteSets, TLC

VARIABLES
    rooms,          \* Room collection: sequence of documents, _id = index
    messages,       \* Message collection: sequence of documents, _id = index
    userStatus,     \* User collection: status field of every user document
    connectedUsers, \* the module-level Map: user id -> entry
    sockUser,       \* socket.user of every connection
    connOpen,       \* whether the transport of the connection is open
    socketRooms,    \* Socket.IO rooms the connection has joined (socket.join)
    inbox,          \* events emitted to the connection, in order
    tasks,          \* handlers and route calls suspended on a store call
    nEvents,        \* number of client events and requests received so far
    failures,       \* number of store calls that have failed so far
    now,            \* wall clock read by new Date() for readAt
    responses,      \* HTTP responses of the private-room route, in order
    overlap,        \* history: some request arrived while another was in flight
    ret             \* outcome of the last Room / Message method call

vars == <<rooms, messages, userStatus, connectedUsers, sockUser, connOpen,
          socketRooms, inbox, tasks, nEvents, failures, now, responses,
          overlap, ret>>

storeVars == <<rooms, messages, userStatus>>
socketVars == <<connectedUsers, sockUser, connOpen, socketRooms, inbox>>

-----------------------------------------------------------------------------
(* Bounds of the model *)

MaxEvents == 3      \* client events received in the socket specification
MaxLiveEvents == 2  \* client events received in the fair specification
MaxCalls == 3       \* requests to the private-room route
MaxTasks == 2       \* handlers suspended at the same time
MaxFailures == 1    \* store calls that fail
MaxTime == 2        \* clock ticks
MaxMethodCalls == 3 \* Room method calls in the membership specification
MaxPresenceEvents == 4 \* client events received in the presence specification
MaxReadEvents == 3  \* client events and method calls in the read-receipt specification
MaxRoomEvents == 2   \* events in the room specification
MaxAddCalls == 3    \* addParticipant calls on loaded copies
MaxRestEvents == 3  \* client events and requests in the REST presence specification
MaxGroupEvents == 2 \* events and method calls in the group specification
SmallMaxParticipants == 2 \* settings.maxParticipants of the small group

(* Program constants *)

MaxMessageLength == 1000
DefaultMaxParticipants == 100
RecentLimit == 50

-----------------------------------------------------------------------------
(* Identities and documents *)

NoUser == "none"
Users == {"A", "B", "C"}          \* user documents; all have isActive = true
UserList == <<"A", "B", "C">>      \* the User collection in insertion order
UnknownId == "Z"                  \* a well-formed id with no user document
Roles == {"admin", "moderator", "member"}

Participant(u, role) == [user |-> u, role |-> role]

NewRoom(type, parts, creator) ==
    [type |-> type, participants |-> parts, creator |-> creator,
     lastActivity |-> 0, maxParticipants |-> DefaultMaxParticipants]

\* participants.some(p => p.user.toString() === userId.toString())
HasUser_Mutant(parts, u) == TRUE
HasUser(parts, u) == \E i \in DOMAIN parts : parts[i].user = u

ParticipantSet(room) == {room.participants[i].user : i \in DOMAIN room.participants}

\* roomSchema.pre('save')
PreSaveRejects_Mutant(room) == room.type = "private" /\ Len(room.participants) > 3
PreSaveRejects(room) == room.type = "private" /\ Len(room.participants) > 2

\* lastActivity = new Date(): the model keeps the number of assignments, so
\* that every assignment is visible as a change.
Bump(room) == [room EXCEPT !.lastActivity = @ + 1]

\* connectedUsers.get(id) of an absent key
NoEntry == [socketId |-> "", joinedRooms |-> {}]

Conns == {"c1", "c2", "c3", "c4"}

\* The server before any packet has been received: the Map is empty and no
\* socket has a user, a room or a received event.
NoConnections ==
    /\ connectedUsers = [u \in Users |-> NoEntry]
    /\ sockUser = [c \in Conns |-> NoUser]
    /\ connOpen = [c \in Conns |-> TRUE]
    /\ socketRooms = [c \in Conns |-> {}]
    /\ inbox = [c \in Conns |-> << >>]

-----------------------------------------------------------------------------
(* Room.createPrivateRoom and the route POST /:id/private-room *)

\* Room.findOne({type: 'private', 'participants.user': {$all: [u1, u2]}}):
\* the first matching document in collection order, 0 for null.
MatchesPair_Mutant(room, u1, u2) ==
    /\ room.type = "private"
    /\ Len(room.participants) = 2
    /\ room.participants[1].user = u1
    /\ room.participants[2].user = u2
MatchesPair(room, u1, u2) ==
    /\ room.type = "private"
    /\ HasUser(room.participants, u1)
    /\ HasUser(room.participants, u2)

FindPrivateRoom(rs, u1, u2) ==
    LET hits == {i \in DOMAIN rs : MatchesPair(rs[i], u1, u2)}
    IN IF hits = {} THEN 0 ELSE CHOOSE i \in hits : \A j \in hits : i <= j

PrivateRoomDoc(u1, u2) ==
    NewRoom("private", <<Participant(u1, "member"), Participant(u2, "member")>>, u1)

\* A handler that holds no loaded room document
NoDoc == NewRoom("none", << >>, NoUser)

Task(seq, op, conn, pc) ==
    [seq |-> seq, op |-> op, conn |-> conn, pc |-> pc, user |-> NoUser,
     other |-> NoUser, room |-> 0, msg |-> 0, ids |-> {}, pids |-> <<>>,
     valid |-> <<>>, content |-> [lead |-> 0, core |-> 0, trail |-> 0],
     replyTo |-> 0, doc |-> NoDoc, status |-> ""]

Response(seq, me, other, status, room, created) ==
    [seq |-> seq, me |-> me, other |-> other, status |-> status,
     room |-> room, created |-> created]

\* router.post('/:id/private-room'): the request arrives, the other user is
\* looked up and validated; on success createPrivateRoom is entered and
\* suspends on findOne.
PrivateRoomRequest(me, id) ==
    /\ nEvents < MaxCalls
    /\ nEvents' = nEvents + 1
    /\ overlap' = (overlap \/ tasks # {})
    /\ IF id \notin Users
       THEN /\ responses' = Append(responses, Response(nEvents + 1, me, id, 404, 0, FALSE))
            /\ tasks' = tasks
       ELSE IF id = me
       THEN /\ responses' = Append(responses, Response(nEvents + 1, me, id, 400, 0, FALSE))
            /\ tasks' = tasks
       ELSE /\ Cardinality(tasks) < MaxTasks
            /\ tasks' = tasks \cup
                 {[Task(nEvents + 1, "private_room", "http", "findOne")
                     EXCEPT !.user = me, !.other = id]}
            /\ responses' = responses
    /\ UNCHANGED <<storeVars, socketVars, failures, now, ret>>

\* await this.findOne(...): an existing room is returned, otherwise the new
\* document is built and the call suspends on save.
PrivateRoomFind(t) ==
    /\ t \in tasks /\ t.op = "private_room" /\ t.pc = "findOne"
    /\ LET found == FindPrivateRoom(rooms, t.user, t.other)
       IN IF found # 0
          THEN /\ tasks' = tasks \ {t}
               /\ responses' = Append(responses,
                     Response(t.seq, t.user, t.other, 200, found, FALSE))
          ELSE /\ tasks' = (tasks \ {t}) \cup {[t EXCEPT !.pc = "save"]}
               /\ responses' = responses
    /\ UNCHANGED <<storeVars, socketVars, nEvents, failures, now, overlap, ret>>

\* await privateRoom.save(): the document is inserted and returned.
PrivateRoomSave(t) ==
    /\ t \in tasks /\ t.op = "private_room" /\ t.pc = "save"
    /\ rooms' = Append(rooms, PrivateRoomDoc(t.user, t.other))
    /\ tasks' = tasks \ {t}
    /\ responses' = Append(responses,
          Response(t.seq, t.user, t.other, 200, Len(rooms) + 1, TRUE))
    /\ UNCHANGED <<messages, userStatus, socketVars, nEvents, failures, now,
                   overlap, ret>>

InitPrivate ==
    /\ rooms = << NewRoom("group", <<Participant("A", "admin"), Participant("B", "member")>>, "A") >>
    /\ messages = << >>
    /\ userStatus = [u \in Users |-> "offline"]
    /\ NoConnections
    /\ tasks = {}
    /\ nEvents = 0
    /\ failures = 0
    /\ now = 0
    /\ responses = << >>
    /\ overlap = FALSE
    /\ ret = "none"

NextPrivate ==
    \/ \E me \in Users, id \in Users \cup {UnknownId} : PrivateRoomRequest(me, id)
    \/ \E t \in tasks : PrivateRoomFind(t)
    \/ \E t \in tasks : PrivateRoomSave(t)

SpecPrivate == InitPrivate /\ [][NextPrivate]_vars

-----------------------------------------------------------------------------
(* Socket.IO plumbing *)

\* The identity the handshake token of a connection verifies to.  c1 and c2
\* are two devices of A, c3 belongs to B, and the token of c4 does not verify.
Cred(c) == CASE c = "c1" -> "A" [] c = "c2" -> "A" [] c = "c3" -> "B" [] OTHER -> NoUser

\* authenticateSocket(socket, next), run by socket.use on every packet: a
\* verified token sets socket.user; otherwise socket.user is left as it is and
\* the packet goes on to its handler.
AuthenticateSocket(c) == IF Cred(c) \in Users THEN Cred(c) ELSE sockUser[c]

\* The client (SocketService.connect) emits 'authenticate' first; a client
\* whose token does not verify never gets a user and may send anything.
MaySend(c) ==
    /\ connOpen[c]
    /\ nEvents < MaxEvents
    /\ (sockUser[c] # NoUser \/ Cred(c) \notin Users)

NoContent == [lead |-> 0, core |-> 0, trail |-> 0]

Ev(type, room, user, info) ==
    [type |-> type, room |-> room, user |-> user, info |-> info, msg |-> 0,
     content |-> NoContent, list |-> << >>, ids |-> {}]

ErrorEv(text) == Ev("error", 0, NoUser, text)

IsError(ev) == ev.type = "error"

\* io.to(roomId): the open sockets that have joined the room
InRoom(r) == {c \in Conns : connOpen[c] /\ r \in socketRooms[c]}

\* socket.to(roomId): the same, without the emitting socket
OthersInRoom_Mutant(c, r) == {d \in Conns : connOpen[d]} \ {c}
OthersInRoom(c, r) == InRoom(r) \ {c}

\* socket.emit(...): a closed socket receives nothing
Self(c) == IF connOpen[c] THEN {c} ELSE {}

\* io.to(socketId): the room every open socket forms by itself
BySocketId(id) == {c \in Conns : c = id /\ connOpen[c]}

Deliver(box, targets, ev) ==
    [c \in Conns |-> IF c \in targets THEN Append(box[c], ev) ELSE box[c]]

\* Set -> ascending sequence
RECURSIVE SetToSeq(_)
SetToSeq(S) ==
    IF S = {} THEN << >>
    ELSE LET m == CHOOSE x \in S : \A y \in S : x <= y
         IN <<m>> \o SetToSeq(S \ {m})

\* rooms.forEach(room => socket.to(room).emit(ev)): one broadcast per room
RECURSIVE BroadcastEach(_, _, _, _)
BroadcastEach(box, c, rs, ev) ==
    IF rs = << >> THEN box
    ELSE BroadcastEach(Deliver(box, OthersInRoom(c, Head(rs)), [ev EXCEPT !.room = Head(rs)]),
                       c, Tail(rs), ev)

HasEntry(u) == connectedUsers[u] # NoEntry

\* connectedUsers.get(id)?.joinedRooms.add(roomId)
RegistryAdd(reg, u, rs) ==
    IF reg[u] # NoEntry THEN [reg EXCEPT ![u].joinedRooms = @ \cup rs] ELSE reg

\* connectedUsers.get(id)?.joinedRooms.delete(roomId)
RegistryDelete_Mutant(reg, u, r) == reg
RegistryDelete(reg, u, r) ==
    IF reg[u] # NoEntry THEN [reg EXCEPT ![u].joinedRooms = @ \ {r}] ELSE reg

\* A store call either succeeds or throws; at most MaxFailures calls throw.
Outcomes == IF failures < MaxFailures THEN {TRUE, FALSE} ELSE {TRUE}

Suspend(t) == tasks' = tasks \cup {t}
Resume(t, pc) == tasks' = (tasks \ {t}) \cup {[t EXCEPT !.pc = pc]}
Finish(t) == tasks' = tasks \ {t}
Failed(ok) == failures' = IF ok THEN failures ELSE failures + 1

\* return socket.emit('error', { message: 'Not authenticated' })
NotAuthenticated_Mutant(c) == inbox
NotAuthenticated(c) == Deliver(inbox, Self(c), ErrorEv("Not authenticated"))

-----------------------------------------------------------------------------
(* socket.on('authenticate') *)

\* Room.findUserRooms(userId): the rooms with the user as participant, sorted
\* by lastActivity descending (ties in collection order).
RECURSIVE SortByActivity(_, _)
SortByActivity(rs, S) ==
    IF S = {} THEN << >>
    ELSE LET m == CHOOSE x \in S : \A y \in S :
                     \/ rs[x].lastActivity > rs[y].lastActivity
                     \/ rs[x].lastActivity = rs[y].lastActivity /\ x <= y
         IN <<m>> \o SortByActivity(rs, S \ {m})

FindUserRooms_Mutant(rs, u) == << >>
FindUserRooms(rs, u) ==
    SortByActivity(rs, {i \in DOMAIN rs : HasUser(rs[i].participants, u)})

SeqToSet(q) == {q[i] : i \in DOMAIN q}

\* socket.emit('auth_error', { message: 'Authentication failed' })
AuthError == Ev("auth_error", 0, NoUser, "Authentication failed")

\* authenticateSocket on an 'authenticate' packet whose token does not verify:
\* the caller is told so and socket.user stays unset.
VerificationFailed(c) == Deliver(inbox, Self(c), AuthError)

Authenticate_Mutant(c) ==
    /\ connOpen[c] /\ nEvents < MaxEvents
    /\ nEvents' = nEvents + 1
    /\ LET u == AuthenticateSocket(c) IN
         /\ sockUser' = [sockUser EXCEPT ![c] = u]
         /\ IF u = NoUser
            THEN UNCHANGED <<connectedUsers, tasks>>
            ELSE /\ Cardinality(tasks) < MaxTasks
                 /\ connectedUsers' = [connectedUsers EXCEPT ![u] =
                                         [socketId |-> c, joinedRooms |-> {}]]
                 /\ Suspend([Task(nEvents + 1, "authenticate", c, "setOnline")
                               EXCEPT !.user = u])
    /\ UNCHANGED <<storeVars, connOpen, socketRooms, inbox, failures, now,
                   responses, overlap, ret>>

\* The event arrives: socket.user is set by the middleware, the Map entry of
\* the user is replaced and the handler suspends on User.findByIdAndUpdate.
\* Without a user the handler does nothing.
Authenticate(c) ==
    /\ connOpen[c] /\ nEvents < MaxEvents
    /\ nEvents' = nEvents + 1
    /\ LET u == AuthenticateSocket(c) IN
         /\ sockUser' = [sockUser EXCEPT ![c] = u]
         /\ IF u = NoUser
            THEN /\ inbox' = VerificationFailed(c)
                 /\ UNCHANGED <<connectedUsers, tasks>>
            ELSE /\ Cardinality(tasks) < MaxTasks
                 /\ inbox' = inbox
                 /\ connectedUsers' = [connectedUsers EXCEPT ![u] =
                                         [socketId |-> c, joinedRooms |-> {}]]
                 /\ Suspend([Task(nEvents + 1, "authenticate", c, "setOnline")
                               EXCEPT !.user = u])
    /\ UNCHANGED <<storeVars, connOpen, socketRooms, failures, now,
                   responses, overlap, ret>>

\* await User.findByIdAndUpdate(..., {status: 'online'}); then the handler
\* suspends on Room.findUserRooms.
AuthSetOnline(t) ==
    /\ t \in tasks /\ t.op = "authenticate" /\ t.pc = "setOnline"
    /\ \E ok \in Outcomes :
         /\ Failed(ok)
         /\ IF ok
            THEN /\ userStatus' = [userStatus EXCEPT ![t.user] = "online"]
                 /\ Resume(t, "findRooms")
                 /\ inbox' = inbox
            ELSE /\ userStatus' = userStatus
                 /\ Finish(t)
                 /\ inbox' = Deliver(inbox, Self(t.conn), AuthError)
    /\ UNCHANGED <<rooms, messages, connectedUsers, sockUser, connOpen,
                   socketRooms, nEvents, now, responses, overlap, ret>>

\* await Room.findUserRooms(...); the socket joins every room and the Map
\* entry records it, 'authenticated' goes to the caller and
\* 'user_status_changed' to the others in every room.  When the Map entry is
\* gone, connectedUsers.get(...).joinedRooms throws in the first iteration,
\* after the first socket.join.
AuthFindRooms(t) ==
    /\ t \in tasks /\ t.op = "authenticate" /\ t.pc = "findRooms"
    /\ Finish(t)
    /\ \E ok \in Outcomes :
         /\ Failed(ok)
         /\ LET userRooms == FindUserRooms(rooms, t.user)
                authErr == AuthError
            IN IF ~ok
               THEN /\ inbox' = Deliver(inbox, Self(t.conn), authErr)
                    /\ UNCHANGED <<socketRooms, connectedUsers>>
               ELSE IF userRooms # << >> /\ ~HasEntry(t.user)
               THEN /\ socketRooms' = [socketRooms EXCEPT ![t.conn] = @ \cup {Head(userRooms)}]
                    /\ inbox' = Deliver(inbox, Self(t.conn), authErr)
                    /\ UNCHANGED connectedUsers
               ELSE /\ socketRooms' = [socketRooms EXCEPT ![t.conn] = @ \cup SeqToSet(userRooms)]
                    /\ connectedUsers' = RegistryAdd(connectedUsers, t.user, SeqToSet(userRooms))
                    /\ inbox' = BroadcastEach(
                          Deliver(inbox, Self(t.conn),
                                  [Ev("authenticated", 0, t.user, "") EXCEPT !.list = userRooms]),
                          t.conn, userRooms,
                          Ev("user_status_changed", 0, t.user, "online"))
    /\ UNCHANGED <<storeVars, sockUser, connOpen, nEvents, now, responses,
                   overlap, ret>>

-----------------------------------------------------------------------------
(* socket.on('disconnect') *)

\* The transport closes: Socket.IO removes the socket from all its rooms and
\* then runs the handler, which suspends on User.findByIdAndUpdate.
Disconnect(c) ==
    /\ connOpen[c] /\ nEvents < MaxEvents
    /\ nEvents' = nEvents + 1
    /\ connOpen' = [connOpen EXCEPT ![c] = FALSE]
    /\ socketRooms' = [socketRooms EXCEPT ![c] = {}]
    /\ IF sockUser[c] = NoUser
       THEN tasks' = tasks
       ELSE /\ Cardinality(tasks) < MaxTasks
            /\ Suspend([Task(nEvents + 1, "disconnect", c, "setOffline")
                          EXCEPT !.user = sockUser[c]])
    /\ UNCHANGED <<storeVars, connectedUsers, sockUser, inbox, failures, now,
                   responses, overlap, ret>>

\* await User.findByIdAndUpdate(..., {status: 'offline'}); then every room of
\* the Map entry's joinedRooms is notified and the entry is deleted.
DisconnectSetOffline(t) ==
    /\ t \in tasks /\ t.op = "disconnect" /\ t.pc = "setOffline"
    /\ Finish(t)
    /\ \E ok \in Outcomes :
         /\ Failed(ok)
         /\ IF ~ok
            THEN UNCHANGED <<userStatus, inbox, connectedUsers>>
            ELSE /\ userStatus' = [userStatus EXCEPT ![t.user] = "offline"]
                 /\ IF HasEntry(t.user)
                    THEN /\ inbox' = BroadcastEach(inbox, t.conn,
                                SetToSeq(connectedUsers[t.user].joinedRooms),
                                Ev("user_status_changed", 0, t.user, "offline"))
                         /\ connectedUsers' = [connectedUsers EXCEPT ![t.user] = NoEntry]
                    ELSE UNCHANGED <<inbox, connectedUsers>>
    /\ UNCHANGED <<rooms, messages, sockUser, connOpen, socketRooms, nEvents,
                   now, responses, overlap, ret>>

-----------------------------------------------------------------------------
(* socket.on('join_room'), socket.on('leave_room') *)

RoomIds == 0 .. Len(rooms)   \* 0: an id no room document has

JoinRoom(c, r) ==
    /\ MaySend(c)
    /\ nEvents' = nEvents + 1
    /\ sockUser' = [sockUser EXCEPT ![c] = AuthenticateSocket(c)]
    /\ IF sockUser'[c] = NoUser
       THEN /\ inbox' = NotAuthenticated(c)
            /\ tasks' = tasks
       ELSE /\ Cardinality(tasks) < MaxTasks
            /\ inbox' = inbox
            /\ Suspend([Task(nEvents + 1, "join_room", c, "findRoom")
                          EXCEPT !.user = sockUser'[c], !.room = r])
    /\ UNCHANGED <<storeVars, connectedUsers, connOpen, socketRooms, failures,
                   now, responses, overlap, ret>>

\* await Room.findById(roomId); the participant check; socket.join and the Map
\* entry; then the handler suspends on Message.getRecentMessages.
JoinRoomFind(t) ==
    /\ t \in tasks /\ t.op = "join_room" /\ t.pc = "findRoom"
    /\ \E ok \in Outcomes :
         /\ Failed(ok)
         /\ IF ~ok
            THEN /\ inbox' = Deliver(inbox, Self(t.conn), ErrorEv("Failed to join room"))
                 /\ Finish(t)
                 /\ UNCHANGED <<socketRooms, connectedUsers>>
            ELSE IF t.room \notin DOMAIN rooms
            THEN /\ inbox' = Deliver(inbox, Self(t.conn), ErrorEv("Room not found"))
                 /\ Finish(t)
                 /\ UNCHANGED <<socketRooms, connectedUsers>>
            ELSE IF ~HasUser(rooms[t.room].participants, t.user)
            THEN /\ inbox' = Deliver(inbox, Self(t.conn), ErrorEv("Access denied to room"))
                 /\ Finish(t)
                 /\ UNCHANGED <<socketRooms, connectedUsers>>
            ELSE /\ socketRooms' = [socketRooms EXCEPT ![t.conn] = @ \cup {t.room}]
                 /\ connectedUsers' = RegistryAdd(connectedUsers, t.user, {t.room})
                 /\ Resume(t, "recent")
                 /\ inbox' = inbox
    /\ UNCHANGED <<storeVars, sockUser, connOpen, nEvents, now, responses,
                   overlap, ret>>

\* The last n elements of a sequence
LastN_Mutant(q, n) == IF Len(q) <= n THEN q ELSE SubSeq(q, 1, n)
LastN(q, n) == IF Len(q) <= n THEN q ELSE SubSeq(q, Len(q) - n + 1, Len(q))

\* Message.getRecentMessages(roomId, limit) followed by reverse(): the ids of
\* the newest `limit` messages of the room, oldest first.
RecentMessages(ms, r, limit) ==
    LastN(SetToSeq({i \in DOMAIN ms : ms[i].room = r}), limit)

\* await Message.getRecentMessages(roomId, 50); 'room_joined' to the caller,
\* 'user_joined_room' to the others in the room.
JoinRoomRecent(t) ==
    /\ t \in tasks /\ t.op = "join_room" /\ t.pc = "recent"
    /\ Finish(t)
    /\ \E ok \in Outcomes :
         /\ Failed(ok)
         /\ IF ~ok
            THEN inbox' = Deliver(inbox, Self(t.conn), ErrorEv("Failed to join room"))
            ELSE inbox' = Deliver(
                    Deliver(inbox, Self(t.conn),
                            [Ev("room_joined", t.room, NoUser, "")
                               EXCEPT !.list = RecentMessages(messages, t.room, RecentLimit)]),
                    OthersInRoom(t.conn, t.room),
                    Ev("user_joined_room", t.room, t.user, ""))
    /\ UNCHANGED <<storeVars, connectedUsers, sockUser, connOpen, socketRooms,
                   nEvents, now, responses, overlap, ret>>

LeaveRoom_Mutant(c, r) ==
    /\ MaySend(c)
    /\ nEvents' = nEvents + 1
    /\ sockUser' = [sockUser EXCEPT ![c] = AuthenticateSocket(c)]
    /\ IF sockUser'[c] = NoUser
       THEN inbox' = NotAuthenticated(c)
       ELSE inbox' = Deliver(
                  Deliver(inbox, OthersInRoom(c, r) \ {c},
                          Ev("user_left_room", r, sockUser'[c], "")),
                  Self(c), Ev("room_left", r, NoUser, ""))
    /\ UNCHANGED <<storeVars, connectedUsers, socketRooms, connOpen, tasks,
                   failures, now, responses, overlap, ret>>

\* The handler has no await: it runs in one step.
LeaveRoom(c, r) ==
    /\ MaySend(c)
    /\ nEvents' = nEvents + 1
    /\ sockUser' = [sockUser EXCEPT ![c] = AuthenticateSocket(c)]
    /\ IF sockUser'[c] = NoUser
       THEN /\ inbox' = NotAuthenticated(c)
            /\ UNCHANGED <<socketRooms, connectedUsers>>
       ELSE /\ socketRooms' = [socketRooms EXCEPT ![c] = @ \ {r}]
            /\ connectedUsers' = RegistryDelete(connectedUsers, sockUser'[c], r)
            /\ inbox' = Deliver(
                  Deliver(inbox, OthersInRoom(c, r) \ {c},
                          Ev("user_left_room", r, sockUser'[c], "")),
                  Self(c), Ev("room_left", r, NoUser, ""))
    /\ UNCHANGED <<storeVars, connOpen, tasks, failures, now, responses,
                   overlap, ret>>

-----------------------------------------------------------------------------
(* socket.on('send_message') *)

\* A string is kept as its leading whitespace, its core (from the first to
\* the last non-blank character) and its trailing whitespace.
Str(lead, core, trail) == [lead |-> lead, core |-> core, trail |-> trail]
StrLen(x) == x.lead + x.core + x.trail
Trim(x) == Str(0, x.core, 0)

Contents ==
    { Str(1, 2, 1),                     \* " hi "
      Str(0, 0, 0),                     \* ""
      Str(2, 0, 0),                     \* blanks only
      Str(0, MaxMessageLength, 0),      \* 1000 characters
      Str(0, MaxMessageLength, 1),      \* 1000 characters and a blank
      Str(0, MaxMessageLength + 1, 0) } \* 1001 characters

\* !content || content.trim().length === 0
ContentMissing(x) == StrLen(x) = 0 \/ StrLen(Trim(x)) = 0

\* content.length > 1000
ContentTooLong_Mutant(x) == StrLen(Trim(x)) > MaxMessageLength
ContentTooLong(x) == StrLen(x) > MaxMessageLength

NewMessage(content, sender, room, replyTo) ==
    [content |-> content, sender |-> sender, room |-> room,
     replyTo |-> replyTo, readBy |-> << >>]

SendMessage_Mutant(c, r, x, replyTo) ==
    /\ MaySend(c)
    /\ nEvents' = nEvents + 1
    /\ sockUser' = [sockUser EXCEPT ![c] = AuthenticateSocket(c)]
    /\ IF sockUser'[c] = NoUser
       THEN /\ inbox' = NotAuthenticated(c)
            /\ tasks' = tasks
       ELSE /\ Cardinality(tasks) < MaxTasks
            /\ inbox' = inbox
            /\ Suspend([Task(nEvents + 1, "send_message", c, "findRoom")
                          EXCEPT !.user = sockUser'[c], !.room = r,
                                 !.content = x, !.replyTo = replyTo])
    /\ UNCHANGED <<storeVars, connectedUsers, connOpen, socketRooms, failures,
                   now, responses, overlap, ret>>

\* The event arrives: the user check and the two content checks run, and the
\* handler suspends on Room.findById.
SendMessage(c, r, x, replyTo) ==
    /\ MaySend(c)
    /\ nEvents' = nEvents + 1
    /\ sockUser' = [sockUser EXCEPT ![c] = AuthenticateSocket(c)]
    /\ IF sockUser'[c] = NoUser
       THEN /\ inbox' = NotAuthenticated(c)
            /\ tasks' = tasks
       ELSE IF ContentMissing(x)
       THEN /\ inbox' = Deliver(inbox, Self(c), ErrorEv("Message content is required"))
            /\ tasks' = tasks
       ELSE IF ContentTooLong(x)
       THEN /\ inbox' = Deliver(inbox, Self(c), ErrorEv("Message too long"))
            /\ tasks' = tasks
       ELSE /\ Cardinality(tasks) < MaxTasks
            /\ inbox' = inbox
            /\ Suspend([Task(nEvents + 1, "send_message", c, "findRoom")
                          EXCEPT !.user = sockUser'[c], !.room = r,
                                 !.content = x, !.replyTo = replyTo])
    /\ UNCHANGED <<storeVars, connectedUsers, connOpen, socketRooms, failures,
                   now, responses, overlap, ret>>

\* await Room.findById(roomId) and the participant check; the message is
\* built and the handler suspends on message.save().
SendMessageFind(t) ==
    /\ t \in tasks /\ t.op = "send_message" /\ t.pc = "findRoom"
    /\ \E ok \in Outcomes :
         /\ Failed(ok)
         /\ IF ~ok
            THEN /\ inbox' = Deliver(inbox, Self(t.conn), ErrorEv("Failed to send message"))
                 /\ Finish(t)
            ELSE IF t.room \notin DOMAIN rooms
            THEN /\ inbox' = Deliver(inbox, Self(t.conn), ErrorEv("Room not found"))
                 /\ Finish(t)
            ELSE IF ~HasUser(rooms[t.room].participants, t.user)
            THEN /\ inbox' = Deliver(inbox, Self(t.conn), ErrorEv("Access denied to room"))
                 /\ Finish(t)
            ELSE /\ inbox' = inbox
                 /\ Resume(t, "save")
    /\ UNCHANGED <<storeVars, connectedUsers, sockUser, connOpen, socketRooms,
                   nEvents, now, responses, overlap, ret>>

\* await message.save(): the message is inserted with the trimmed content.
SendMessageSave(t) ==
    /\ t \in tasks /\ t.op = "send_message" /\ t.pc = "save"
    /\ \E ok \in Outcomes :
         /\ Failed(ok)
         /\ IF ~ok
            THEN /\ inbox' = Deliver(inbox, Self(t.conn), ErrorEv("Failed to send message"))
                 /\ Finish(t)
                 /\ messages' = messages
            ELSE /\ messages' = Append(messages,
                       NewMessage(Trim(t.content), t.user, t.room, t.replyTo))
                 /\ tasks' = (tasks \ {t}) \cup
                       {[t EXCEPT !.pc = "saveRoom", !.msg = Len(messages) + 1]}
                 /\ inbox' = inbox
    /\ UNCHANGED <<rooms, userStatus, connectedUsers, sockUser, connOpen,
                   socketRooms, nEvents, now, responses, overlap, ret>>

\* io.to(roomId)
NewMessageTargets_Mutant(c, r) == OthersInRoom(c, r)
NewMessageTargets(c, r) == InRoom(r)

NewMessageEv(ms, id) ==
    [Ev("new_message", ms[id].room, ms[id].sender, "")
       EXCEPT !.msg = id, !.content = ms[id].content]

SendMessageSaveRoom_Mutant(t) ==
    /\ t \in tasks /\ t.op = "send_message" /\ t.pc = "saveRoom"
    /\ Finish(t)
    /\ \E ok \in Outcomes :
         /\ Failed(ok)
         /\ rooms' = IF ok THEN [rooms EXCEPT ![t.room] = Bump(@)] ELSE rooms
         /\ inbox' = Deliver(inbox, NewMessageTargets(t.conn, t.room),
                             NewMessageEv(messages, t.msg))
    /\ UNCHANGED <<messages, userStatus, connectedUsers, sockUser, connOpen,
                   socketRooms, nEvents, now, responses, overlap, ret>>

\* await message.populate(...) and await room.save() with the new
\* lastActivity; then io.to(roomId).emit('new_message').
SendMessageSaveRoom(t) ==
    /\ t \in tasks /\ t.op = "send_message" /\ t.pc = "saveRoom"
    /\ Finish(t)
    /\ \E ok \in Outcomes :
         /\ Failed(ok)
         /\ IF ~ok
            THEN /\ inbox' = Deliver(inbox, Self(t.conn), ErrorEv("Failed to send message"))
                 /\ rooms' = rooms
            ELSE /\ rooms' = [rooms EXCEPT ![t.room] = Bump(@)]
                 /\ inbox' = Deliver(inbox, NewMessageTargets(t.conn, t.room),
                                     NewMessageEv(messages, t.msg))
    /\ UNCHANGED <<messages, userStatus, connectedUsers, sockUser, connOpen,
                   socketRooms, nEvents, now, responses, overlap, ret>>

-----------------------------------------------------------------------------
(* socket.on('typing'), socket.on('mark_messages_read') *)

TypingToAll_Mutant(c, r) ==
    /\ MaySend(c)
    /\ nEvents' = nEvents + 1
    /\ sockUser' = [sockUser EXCEPT ![c] = AuthenticateSocket(c)]
    /\ IF sockUser'[c] = NoUser
       THEN inbox' = inbox
       ELSE inbox' = Deliver(inbox, InRoom(r), Ev("user_typing", r, sockUser'[c], "true"))
    /\ UNCHANGED <<storeVars, connectedUsers, connOpen, socketRooms, tasks,
                   failures, now, responses, overlap, ret>>

Typing_Mutant(c, r) ==
    /\ MaySend(c)
    /\ nEvents' = nEvents + 1
    /\ sockUser' = [sockUser EXCEPT ![c] = AuthenticateSocket(c)]
    /\ inbox' = Deliver(inbox, OthersInRoom(c, r), Ev("user_typing", r, sockUser'[c], "true"))
    /\ UNCHANGED <<storeVars, connectedUsers, connOpen, socketRooms, tasks,
                   failures, now, responses, overlap, ret>>

\* No await: one step.  Without a user the handler returns without a reply.
Typing(c, r) ==
    /\ MaySend(c)
    /\ nEvents' = nEvents + 1
    /\ sockUser' = [sockUser EXCEPT ![c] = AuthenticateSocket(c)]
    /\ IF sockUser'[c] = NoUser
       THEN inbox' = inbox
       ELSE inbox' = Deliver(inbox, OthersInRoom(c, r), Ev("user_typing", r, sockUser'[c], "true"))
    /\ UNCHANGED <<storeVars, connectedUsers, connOpen, socketRooms, tasks,
                   failures, now, responses, overlap, ret>>

\* Without a user, or with no message ids, the handler returns without a reply.
MarkMessagesRead(c, r, ids) ==
    /\ MaySend(c)
    /\ nEvents' = nEvents + 1
    /\ sockUser' = [sockUser EXCEPT ![c] = AuthenticateSocket(c)]
    /\ IF sockUser'[c] = NoUser \/ ids = {}
       THEN tasks' = tasks
       ELSE /\ Cardinality(tasks) < MaxTasks
            /\ Suspend([Task(nEvents + 1, "mark_messages_read", c, "updateMany")
                          EXCEPT !.user = sockUser'[c], !.room = r, !.ids = ids])
    /\ UNCHANGED <<storeVars, connectedUsers, connOpen, socketRooms, inbox,
                   failures, now, responses, overlap, ret>>

ReadReceipt(u, at) == [user |-> u, readAt |-> at]

\* $addToSet: the value is appended unless the array holds an equal value
AddToSet(q, x) == IF \E i \in DOMAIN q : q[i] = x THEN q ELSE Append(q, x)

\* Message.updateMany({_id: {$in: ids}, room, sender: {$ne: user}},
\*                    {$addToSet: {readBy: {user, readAt: new Date()}}})
UpdateManyRead_Mutant(ms, ids, r, u, at) ==
    [i \in DOMAIN ms |->
        IF i \in ids /\ ms[i].sender # u
        THEN [ms[i] EXCEPT !.readBy = AddToSet(@, ReadReceipt(u, at))]
        ELSE ms[i]]
UpdateManyRead(ms, ids, r, u, at) ==
    [i \in DOMAIN ms |->
        IF i \in ids /\ ms[i].room = r /\ ms[i].sender # u
        THEN [ms[i] EXCEPT !.readBy = AddToSet(@, ReadReceipt(u, at))]
        ELSE ms[i]]

\* await Message.updateMany(...); then 'messages_read' to the others in the room.
MarkMessagesReadUpdate(t) ==
    /\ t \in tasks /\ t.op = "mark_messages_read" /\ t.pc = "updateMany"
    /\ Finish(t)
    /\ \E ok \in Outcomes :
         /\ Failed(ok)
         /\ IF ~ok
            THEN UNCHANGED <<messages, inbox>>
            ELSE /\ messages' = UpdateManyRead(messages, t.ids, t.room, t.user, now)
                 /\ inbox' = Deliver(inbox, OthersInRoom(t.conn, t.room),
                                [Ev("messages_read", t.room, t.user, "") EXCEPT !.ids = t.ids])
    /\ UNCHANGED <<rooms, userStatus, connectedUsers, sockUser, connOpen,
                   socketRooms, nEvents, now, responses, overlap, ret>>

\* messageSchema.methods.markAsRead(userId), called on the stored message
MarkAsRead(m, u) ==
    /\ m \in DOMAIN messages
    /\ nEvents < MaxEvents
    /\ nEvents' = nEvents + 1
    /\ messages' = [messages EXCEPT ![m].readBy =
                      IF \E i \in DOMAIN @ : @[i].user = u
                      THEN @ ELSE Append(@, ReadReceipt(u, now))]
    /\ ret' = "ok"
    /\ UNCHANGED <<rooms, userStatus, socketVars, tasks, failures, now,
                   responses, overlap>>

\* Time passes between two calls of new Date().
Tick ==
    /\ now < MaxTime
    /\ now' = now + 1
    /\ UNCHANGED <<storeVars, socketVars, tasks, nEvents, failures, responses,
                   overlap, ret>>

-----------------------------------------------------------------------------
(* socket.on('create_group'), socket.on('get_room_online_users') *)

Names == { Str(0, 4, 1), Str(1, 0, 0) }   \* "team ", " "

\* The participantIds a client sends
ParticipantIdLists ==
    { << >>, <<"B">>, <<"A", "C">>, <<"B", "B", UnknownId>> }

CreateGroup(c, name, pids) ==
    /\ MaySend(c)
    /\ nEvents' = nEvents + 1
    /\ sockUser' = [sockUser EXCEPT ![c] = AuthenticateSocket(c)]
    /\ IF sockUser'[c] = NoUser
       THEN /\ inbox' = NotAuthenticated(c)
            /\ tasks' = tasks
       ELSE IF ContentMissing(name)
       THEN /\ inbox' = Deliver(inbox, Self(c), ErrorEv("Group name is required"))
            /\ tasks' = tasks
       ELSE /\ Cardinality(tasks) < MaxTasks
            /\ inbox' = inbox
            /\ Suspend([Task(nEvents + 1, "create_group", c,
                             IF pids # << >> THEN "findUsers" ELSE "save")
                          EXCEPT !.user = sockUser'[c], !.pids = pids])
    /\ UNCHANGED <<storeVars, connectedUsers, connOpen, socketRooms, failures,
                   now, responses, overlap, ret>>

\* every user is returned, whether or not the list names it
ValidUsers_Mutant(pids) == UserList

\* User.find({_id: {$in: participantIds}, isActive: true}): every matching
\* user document once, in collection order.
ValidUsers(pids) ==
    LET listed(u) == \E i \in DOMAIN pids : pids[i] = u
    IN SelectSeq(UserList, listed)

CreateGroupFindUsers(t) ==
    /\ t \in tasks /\ t.op = "create_group" /\ t.pc = "findUsers"
    /\ \E ok \in Outcomes :
         /\ Failed(ok)
         /\ IF ~ok
            THEN /\ inbox' = Deliver(inbox, Self(t.conn), ErrorEv("Failed to create group"))
                 /\ Finish(t)
            ELSE /\ inbox' = inbox
                 /\ tasks' = (tasks \ {t}) \cup
                       {[t EXCEPT !.pc = "save", !.valid = ValidUsers(t.pids)]}
    /\ UNCHANGED <<storeVars, connectedUsers, sockUser, connOpen, socketRooms,
                   nEvents, now, responses, overlap, ret>>

\* participants: the creator as admin, then every valid user as member
GroupParticipants(creator, valid) ==
    <<Participant(creator, "admin")>> \o
       [i \in DOMAIN valid |-> Participant(valid[i], "member")]

\* participants.forEach(p => { const uc = connectedUsers.get(p.user);
\*   if (uc) io.to(uc.socketId).emit('group_created', ...) })
RECURSIVE NotifyEach(_, _, _, _)
NotifyEach(box, reg, parts, ev) ==
    IF parts = << >> THEN box
    ELSE NotifyEach(
            IF reg[Head(parts).user] # NoEntry
            THEN Deliver(box, BySocketId(reg[Head(parts).user].socketId), ev)
            ELSE box,
            reg, Tail(parts), ev)

\* await room.save() and populate; the creator's socket joins the room, every
\* participant with a Map entry is notified on that entry's socket, and the
\* caller is notified once more.
CreateGroupSave(t) ==
    /\ t \in tasks /\ t.op = "create_group" /\ t.pc = "save"
    /\ Finish(t)
    /\ \E ok \in Outcomes :
         /\ Failed(ok)
         /\ IF ~ok
            THEN /\ inbox' = Deliver(inbox, Self(t.conn), ErrorEv("Failed to create group"))
                 /\ UNCHANGED <<rooms, socketRooms, connectedUsers>>
            ELSE LET parts == GroupParticipants(t.user, t.valid)
                     id == Len(rooms) + 1
                     ev == Ev("group_created", id, t.user, "")
                 IN /\ rooms' = Append(rooms, NewRoom("group", parts, t.user))
                    /\ socketRooms' = [socketRooms EXCEPT ![t.conn] = @ \cup {id}]
                    /\ connectedUsers' = RegistryAdd(connectedUsers, t.user, {id})
                    /\ inbox' = Deliver(NotifyEach(inbox, connectedUsers, parts, ev),
                                        Self(t.conn), ev)
    /\ UNCHANGED <<messages, userStatus, sockUser, connOpen, nEvents, now,
                   responses, overlap, ret>>

GetRoomOnlineUsers(c, r) ==
    /\ MaySend(c)
    /\ nEvents' = nEvents + 1
    /\ sockUser' = [sockUser EXCEPT ![c] = AuthenticateSocket(c)]
    /\ IF sockUser'[c] = NoUser
       THEN tasks' = tasks
       ELSE /\ Cardinality(tasks) < MaxTasks
            /\ Suspend([Task(nEvents + 1, "get_room_online_users", c, "findRoom")
                          EXCEPT !.user = sockUser'[c], !.room = r])
    /\ UNCHANGED <<storeVars, connectedUsers, connOpen, socketRooms, inbox,
                   failures, now, responses, overlap, ret>>

\* room.participants.filter(p => connectedUsers.get(p.user) && status === 'online')
OnlineUsers(room) ==
    LET online(p) == HasEntry(p.user) /\ userStatus[p.user] = "online"
        sel == SelectSeq(room.participants, online)
    IN [i \in DOMAIN sel |-> sel[i].user]

\* await Room.findById(roomId).populate(...); 'room_online_users' to the caller.
\* A missing room and a store error give no reply.
GetRoomOnlineUsersFind(t) ==
    /\ t \in tasks /\ t.op = "get_room_online_users" /\ t.pc = "findRoom"
    /\ Finish(t)
    /\ \E ok \in Outcomes :
         /\ Failed(ok)
         /\ IF ~ok \/ t.room \notin DOMAIN rooms
            THEN inbox' = inbox
            ELSE inbox' = Deliver(inbox, Self(t.conn),
                             [Ev("room_online_users", t.room, NoUser, "")
                                EXCEPT !.list = OnlineUsers(rooms[t.room])])
    /\ UNCHANGED <<storeVars, connectedUsers, sockUser, connOpen, socketRooms,
                   nEvents, now, responses, overlap, ret>>

-----------------------------------------------------------------------------
(* The socket server *)

\* Two group rooms with A and B as participants, every user offline, no
\* message, no connection authenticated.
InitStore ==
    /\ rooms = << NewRoom("group", <<Participant("A", "admin"), Participant("B", "member")>>, "A"),
                  NewRoom("group", <<Participant("B", "admin"), Participant("A", "member")>>, "B") >>
    /\ messages = << >>
    /\ userStatus = [u \in Users |-> "offline"]

Init ==
    /\ InitStore
    /\ NoConnections
    /\ tasks = {}
    /\ nEvents = 0
    /\ failures = 0
    /\ now = 0
    /\ responses = << >>
    /\ overlap = FALSE
    /\ ret = "none"

Step ==
    \/ \E t \in tasks : AuthSetOnline(t)
    \/ \E t \in tasks : AuthFindRooms(t)
    \/ \E t \in tasks : DisconnectSetOffline(t)
    \/ \E t \in tasks : JoinRoomFind(t)
    \/ \E t \in tasks : JoinRoomRecent(t)
    \/ \E t \in tasks : SendMessageFind(t)
    \/ \E t \in tasks : SendMessageSave(t)
    \/ \E t \in tasks : SendMessageSaveRoom(t)
    \/ \E t \in tasks : MarkMessagesReadUpdate(t)
    \/ \E t \in tasks : CreateGroupFindUsers(t)
    \/ \E t \in tasks : CreateGroupSave(t)
    \/ \E t \in tasks : GetRoomOnlineUsersFind(t)

Receive ==
    \/ \E c \in Conns : Authenticate(c)
    \/ \E c \in Conns : Disconnect(c)
    \/ \E c \in Conns, r \in RoomIds : JoinRoom(c, r)
    \/ \E c \in Conns, r \in RoomIds : LeaveRoom(c, r)
    \/ \E c \in Conns, r \in RoomIds, x \in Contents : SendMessage(c, r, x, 0)
    \/ \E c \in Conns, r \in RoomIds : Typing(c, r)
    \/ \E c \in Conns, r \in RoomIds, ids \in SUBSET (DOMAIN messages) :
          MarkMessagesRead(c, r, ids)
    \/ \E c \in Conns, name \in Names, pids \in ParticipantIdLists :
          CreateGroup(c, name, pids)
    \/ \E c \in Conns, r \in RoomIds : GetRoomOnlineUsers(c, r)

Next == Receive \/ Step

Spec == Init /\ [][Next]_vars

-----------------------------------------------------------------------------
(* Specifications that start with c1 (A) and c3 (B) authenticated *)

\* The state reached from Init when c1 and then c3 have sent 'authenticate'
\* and both handlers have run to their end.
BothAuthenticated ==
    /\ userStatus = [u \in Users |-> IF u = "C" THEN "offline" ELSE "online"]
    /\ connectedUsers = [u \in Users |->
          CASE u = "A" -> [socketId |-> "c1", joinedRooms |-> {1, 2}]
            [] u = "B" -> [socketId |-> "c3", joinedRooms |-> {1, 2}]
            [] OTHER -> NoEntry]
    /\ sockUser = [c \in Conns |-> IF c \in {"c1", "c3"} THEN Cred(c) ELSE NoUser]
    /\ connOpen = [c \in Conns |-> TRUE]
    /\ socketRooms = [c \in Conns |-> IF c \in {"c1", "c3"} THEN {1, 2} ELSE {}]
    /\ inbox = [c \in Conns |->
          CASE c = "c1" -> << [Ev("authenticated", 0, "A", "") EXCEPT !.list = <<1, 2>>],
                              Ev("user_status_changed", 1, "B", "online"),
                              Ev("user_status_changed", 2, "B", "online") >>
            [] c = "c3" -> << [Ev("authenticated", 0, "B", "") EXCEPT !.list = <<1, 2>>] >>
            [] OTHER -> << >>]

InitAuthenticated(left) ==
    /\ rooms = << NewRoom("group", <<Participant("A", "admin"), Participant("B", "member")>>, "A"),
                  NewRoom("group", <<Participant("B", "admin"), Participant("A", "member")>>, "B") >>
    /\ BothAuthenticated
    /\ tasks = {}
    /\ nEvents = MaxEvents - left
    /\ failures = 0
    /\ now = 0
    /\ responses = << >>
    /\ overlap = FALSE
    /\ ret = "none"

\* Every pending store call completes: the event loop runs every continuation.
InitLive == InitAuthenticated(MaxLiveEvents) /\ messages = << >>
LiveSpec == InitLive /\ [][Next]_vars /\ WF_vars(Step)

\* Read receipts: a message of A and a message of B in room 1, and a clock.
InitRead ==
    /\ InitAuthenticated(MaxReadEvents)
    /\ messages = << NewMessage(Str(0, 2, 0), "A", 1, 0),
                     NewMessage(Str(0, 3, 0), "B", 1, 0) >>

NextRead ==
    \/ \E c \in Conns, r \in DOMAIN rooms, ids \in SUBSET (DOMAIN messages) :
          MarkMessagesRead(c, r, ids)
    \/ \E t \in tasks : MarkMessagesReadUpdate(t)
    \/ \E m \in DOMAIN messages, u \in Users : MarkAsRead(m, u)
    \/ Tick

SpecRead == InitRead /\ [][NextRead]_vars

\* Presence: connections come and go and leave rooms; the store does not fail.
InitPresence ==
    /\ InitStore
    /\ NoConnections
    /\ tasks = {}
    /\ nEvents = MaxEvents - MaxPresenceEvents
    /\ failures = MaxFailures
    /\ now = 0
    /\ responses = << >>
    /\ overlap = FALSE
    /\ ret = "none"

NextPresence ==
    \/ \E c \in Conns \ {"c4"} : Authenticate(c)
    \/ \E c \in Conns \ {"c4"} : Disconnect(c)
    \/ \E c \in Conns \ {"c4"}, r \in DOMAIN rooms : LeaveRoom(c, r)
    \/ \E t \in tasks : AuthSetOnline(t)
    \/ \E t \in tasks : AuthFindRooms(t)
    \/ \E t \in tasks : DisconnectSetOffline(t)

SpecPresence == InitPresence /\ [][NextPresence]_vars

\* Rooms: the state reached from Init when c1 (A) and c3 (B) have
\* authenticated and c1 has then created a group without further
\* participants: room 3 has A only.
InitRooms ==
    /\ rooms = << NewRoom("group", <<Participant("A", "admin"), Participant("B", "member")>>, "A"),
                  NewRoom("group", <<Participant("B", "admin"), Participant("A", "member")>>, "B"),
                  NewRoom("group", <<Participant("A", "admin")>>, "A") >>
    /\ messages = << >>
    /\ userStatus = [u \in Users |-> IF u = "C" THEN "offline" ELSE "online"]
    /\ connectedUsers = [u \in Users |->
          CASE u = "A" -> [socketId |-> "c1", joinedRooms |-> {1, 2, 3}]
            [] u = "B" -> [socketId |-> "c3", joinedRooms |-> {1, 2}]
            [] OTHER -> NoEntry]
    /\ sockUser = [c \in Conns |-> IF c \in {"c1", "c3"} THEN Cred(c) ELSE NoUser]
    /\ connOpen = [c \in Conns |-> TRUE]
    /\ socketRooms = [c \in Conns |->
          CASE c = "c1" -> {1, 2, 3} [] c = "c3" -> {1, 2} [] OTHER -> {}]
    /\ inbox = [c \in Conns |->
          CASE c = "c1" -> << [Ev("authenticated", 0, "A", "") EXCEPT !.list = <<1, 2>>],
                              Ev("user_status_changed", 1, "B", "online"),
                              Ev("user_status_changed", 2, "B", "online"),
                              Ev("group_created", 3, "A", ""),
                              Ev("group_created", 3, "A", "") >>
            [] c = "c3" -> << [Ev("authenticated", 0, "B", "") EXCEPT !.list = <<1, 2>>] >>
            [] OTHER -> << >>]
    /\ tasks = {}
    /\ nEvents = MaxEvents - MaxRoomEvents
    /\ failures = 0
    /\ now = 0
    /\ responses = << >>
    /\ overlap = FALSE
    /\ ret = "none"

NextRooms ==
    \/ \E c \in {"c1", "c3", "c4"}, r \in RoomIds : JoinRoom(c, r)
    \/ \E c \in {"c1", "c3", "c4"}, r \in RoomIds : LeaveRoom(c, r)
    \/ \E c \in {"c1", "c3", "c4"}, r \in RoomIds, x \in Contents : SendMessage(c, r, x, 0)
    \/ \E t \in tasks : JoinRoomFind(t)
    \/ \E t \in tasks : JoinRoomRecent(t)
    \/ \E t \in tasks : SendMessageFind(t)
    \/ \E t \in tasks : SendMessageSave(t)
    \/ \E t \in tasks : SendMessageSaveRoom(t)

SpecRooms == InitRooms /\ [][NextRooms]_vars

\* Rooms with history: as InitRooms, after one message in room 2 and one
\* message more than getRecentMessages returns in room 1, sent in turn by
\* A and B before the two connections were opened.
InitHistory ==
    /\ rooms = << [NewRoom("group", <<Participant("A", "admin"), Participant("B", "member")>>, "A")
                     EXCEPT !.lastActivity = RecentLimit + 1],
                  [NewRoom("group", <<Participant("B", "admin"), Participant("A", "member")>>, "B")
                     EXCEPT !.lastActivity = 1],
                  NewRoom("group", <<Participant("A", "admin")>>, "A") >>
    /\ messages = [i \in 1 .. (RecentLimit + 2) |->
                      NewMessage(Str(0, 2, 0),
                                 IF i % 2 = 1 THEN "A" ELSE "B",
                                 IF i = 1 THEN 2 ELSE 1, 0)]
    /\ userStatus = [u \in Users |-> IF u = "C" THEN "offline" ELSE "online"]
    /\ connectedUsers = [u \in Users |->
          CASE u = "A" -> [socketId |-> "c1", joinedRooms |-> {1, 2, 3}]
            [] u = "B" -> [socketId |-> "c3", joinedRooms |-> {1, 2}]
            [] OTHER -> NoEntry]
    /\ sockUser = [c \in Conns |-> IF c \in {"c1", "c3"} THEN Cred(c) ELSE NoUser]
    /\ connOpen = [c \in Conns |-> TRUE]
    /\ socketRooms = [c \in Conns |->
          CASE c = "c1" -> {1, 2, 3} [] c = "c3" -> {1, 2} [] OTHER -> {}]
    /\ inbox = [c \in Conns |->
          CASE c = "c1" -> << [Ev("authenticated", 0, "A", "") EXCEPT !.list = <<1, 2>>],
                              Ev("user_status_changed", 1, "B", "online"),
                              Ev("user_status_changed", 2, "B", "online"),
                              Ev("group_created", 3, "A", ""),
                              Ev("group_created", 3, "A", "") >>
            [] c = "c3" -> << [Ev("authenticated", 0, "B", "") EXCEPT !.list = <<1, 2>>] >>
            [] OTHER -> << >>]
    /\ tasks = {}
    /\ nEvents = MaxEvents - MaxRoomEvents
    /\ failures = 0
    /\ now = 0
    /\ responses = << >>
    /\ overlap = FALSE
    /\ ret = "none"

\* The messageIds a client sends: a message of room 2, messages of A and of
\* B in room 1, and messages of both rooms
ReadIdSets == { {1}, {2}, {2, 3}, {1, 2, 3} }

NextHistory ==
    \/ \E c \in {"c1", "c3", "c4"}, r \in RoomIds : JoinRoom(c, r)
    \/ \E c \in {"c1", "c3", "c4"}, r \in RoomIds : LeaveRoom(c, r)
    \/ \E c \in {"c1", "c3", "c4"}, r \in RoomIds, x \in Contents : SendMessage(c, r, x, 0)
    \/ \E c \in {"c1", "c3", "c4"}, r \in RoomIds : Typing(c, r)
    \/ \E c \in {"c1", "c3", "c4"}, r \in RoomIds, ids \in ReadIdSets :
          MarkMessagesRead(c, r, ids)
    \/ \E t \in tasks : JoinRoomFind(t)
    \/ \E t \in tasks : JoinRoomRecent(t)
    \/ \E t \in tasks : SendMessageFind(t)
    \/ \E t \in tasks : SendMessageSave(t)
    \/ \E t \in tasks : SendMessageSaveRoom(t)
    \/ \E t \in tasks : MarkMessagesReadUpdate(t)

SpecHistory == InitHistory /\ [][NextHistory]_vars

\* Replies: send_message with a replyTo.  0 is no replyTo, 99 a well-formed
\* id that no message has; the other ids are those of the stored messages.
ReplyIds == {0, 99} \cup DOMAIN messages

NextReply ==
    \/ \E c \in {"c1", "c3"}, r \in DOMAIN rooms, x \in {Str(1, 2, 1), Str(0, 0, 0)},
          reply \in ReplyIds : SendMessage(c, r, x, reply)
    \/ \E t \in tasks : SendMessageFind(t)
    \/ \E t \in tasks : SendMessageSave(t)
    \/ \E t \in tasks : SendMessageSaveRoom(t)

SpecReply == InitRooms /\ [][NextReply]_vars

-----------------------------------------------------------------------------
(* Room methods: addParticipant, removeParticipant, updateParticipantRole.   *)
(* A call loads the room, runs the method and awaits this.save(); the calls  *)
(* of this specification do not overlap.                                     *)

\* this.save(): the pre('save') hook rejects the document or it is written
Save(r, doc) ==
    IF PreSaveRejects(doc)
    THEN /\ rooms' = rooms
         /\ ret' = "ValidationError"
    ELSE /\ rooms' = [rooms EXCEPT ![r] = doc]
         /\ ret' = "ok"

\* the limit check with > for >=
AddParticipant_Mutant(r, u, role) ==
    /\ r \in DOMAIN rooms
    /\ nEvents < MaxMethodCalls
    /\ nEvents' = nEvents + 1
    /\ IF HasUser(rooms[r].participants, u)
       THEN /\ ret' = "AlreadyParticipant"
            /\ rooms' = rooms
       ELSE IF Len(rooms[r].participants) > rooms[r].maxParticipants
       THEN /\ ret' = "ParticipantLimitExceeded"
            /\ rooms' = rooms
       ELSE Save(r, Bump([rooms[r] EXCEPT !.participants = Append(@, Participant(u, role))]))
    /\ UNCHANGED <<messages, userStatus, socketVars, tasks, failures, now,
                   responses, overlap>>

AddParticipant(r, u, role) ==
    /\ r \in DOMAIN rooms
    /\ nEvents < MaxMethodCalls
    /\ nEvents' = nEvents + 1
    /\ IF HasUser(rooms[r].participants, u)
       THEN /\ ret' = "AlreadyParticipant"
            /\ rooms' = rooms
       ELSE IF Len(rooms[r].participants) >= rooms[r].maxParticipants
       THEN /\ ret' = "ParticipantLimitExceeded"
            /\ rooms' = rooms
       ELSE Save(r, Bump([rooms[r] EXCEPT !.participants = Append(@, Participant(u, role))]))
    /\ UNCHANGED <<messages, userStatus, socketVars, tasks, failures, now,
                   responses, overlap>>

RemoveParticipant(r, u) ==
    /\ r \in DOMAIN rooms
    /\ nEvents < MaxMethodCalls
    /\ nEvents' = nEvents + 1
    /\ LET keep(p) == p.user # u
       IN Save(r, Bump([rooms[r] EXCEPT !.participants = SelectSeq(@, keep)]))
    /\ UNCHANGED <<messages, userStatus, socketVars, tasks, failures, now,
                   responses, overlap>>

UpdateParticipantRole(r, u, role) ==
    /\ r \in DOMAIN rooms
    /\ nEvents < MaxMethodCalls
    /\ nEvents' = nEvents + 1
    /\ IF ~HasUser(rooms[r].participants, u)
       THEN /\ ret' = "NotParticipant"
            /\ rooms' = rooms
       ELSE Save(r, Bump([rooms[r] EXCEPT !.participants =
                            [i \in DOMAIN @ |-> IF @[i].user = u
                                                THEN [@[i] EXCEPT !.role = role]
                                                ELSE @[i]]]))
    /\ UNCHANGED <<messages, userStatus, socketVars, tasks, failures, now,
                   responses, overlap>>

\* A private room of A and B, as createPrivateRoom builds it, and a group of A.
InitMembers ==
    /\ rooms = << PrivateRoomDoc("A", "B"),
                  NewRoom("group", <<Participant("A", "admin")>>, "A") >>
    /\ messages = << >>
    /\ userStatus = [u \in Users |-> "offline"]
    /\ NoConnections
    /\ tasks = {}
    /\ nEvents = 0
    /\ failures = 0
    /\ now = 0
    /\ responses = << >>
    /\ overlap = FALSE
    /\ ret = "none"

NextMembers ==
    \/ \E me \in Users, id \in Users \cup {UnknownId} : PrivateRoomRequest(me, id)
    \/ \E t \in tasks : PrivateRoomFind(t)
    \/ \E t \in tasks : PrivateRoomSave(t)
    \/ \E r \in DOMAIN rooms, u \in Users, role \in Roles : AddParticipant(r, u, role)
    \/ \E r \in DOMAIN rooms, u \in Users : RemoveParticipant(r, u)
    \/ \E r \in DOMAIN rooms, u \in Users, role \in Roles : UpdateParticipantRole(r, u, role)

SpecMembers == InitMembers /\ [][NextMembers]_vars

-----------------------------------------------------------------------------
(* addParticipant on separately loaded copies of a room.  The method runs   *)
(* its checks and the push on the caller's copy and returns this.save(),     *)
(* which the caller awaits: calls on different copies overlap between the    *)
(* push and the write.                                                       *)

\* The caller has loaded room r; addParticipant checks the copy, pushes the
\* new participant onto it and suspends on this.save().
AddParticipantCall(r, u, role) ==
    /\ r \in DOMAIN rooms
    /\ nEvents < MaxAddCalls
    /\ nEvents' = nEvents + 1
    /\ IF HasUser(rooms[r].participants, u)
       THEN /\ ret' = "AlreadyParticipant"
            /\ tasks' = tasks
       ELSE IF Len(rooms[r].participants) >= rooms[r].maxParticipants
       THEN /\ ret' = "ParticipantLimitExceeded"
            /\ tasks' = tasks
       ELSE /\ Cardinality(tasks) < MaxTasks
            /\ ret' = ret
            /\ Suspend([Task(nEvents + 1, "addParticipant", "http", "save")
                          EXCEPT !.room = r, !.other = u,
                                 !.doc = [rooms[r] EXCEPT !.participants =
                                            Append(@, Participant(u, role))]])
    /\ UNCHANGED <<rooms, messages, userStatus, socketVars, failures, now,
                   responses, overlap>>

\* this.save() of the copy: the pre('save') hook sees the copy; the write
\* sends the changes made to the copy, the pushed element as $push and
\* lastActivity as $set, and the stored document takes them.
AddParticipantSave(t) ==
    /\ t \in tasks /\ t.op = "addParticipant" /\ t.pc = "save"
    /\ Finish(t)
    /\ IF PreSaveRejects(t.doc)
       THEN /\ rooms' = rooms
            /\ ret' = "ValidationError"
       ELSE /\ rooms' = [rooms EXCEPT ![t.room] =
                           Bump([@ EXCEPT !.participants =
                                   Append(@, t.doc.participants[Len(t.doc.participants)])])]
            /\ ret' = "ok"
    /\ UNCHANGED <<messages, userStatus, socketVars, nEvents, failures, now,
                   responses, overlap>>

\* A group of A that admits two participants and a private room of A and B.
InitAdd ==
    /\ rooms = << [NewRoom("group", <<Participant("A", "admin")>>, "A")
                     EXCEPT !.maxParticipants = SmallMaxParticipants],
                  PrivateRoomDoc("A", "B") >>
    /\ messages = << >>
    /\ userStatus = [u \in Users |-> "offline"]
    /\ NoConnections
    /\ tasks = {}
    /\ nEvents = 0
    /\ failures = 0
    /\ now = 0
    /\ responses = << >>
    /\ overlap = FALSE
    /\ ret = "none"

NextAdd ==
    \/ \E r \in DOMAIN rooms, u \in Users, role \in Roles : AddParticipantCall(r, u, role)
    \/ \E t \in tasks : AddParticipantSave(t)

SpecAdd == InitAdd /\ [][NextAdd]_vars

\* The participant methods called one after the other on the rooms of
\* InitAdd, the first of which takes two participants at most.
NextLimit ==
    \/ \E r \in DOMAIN rooms, u \in Users, role \in Roles : AddParticipant(r, u, role)
    \/ \E r \in DOMAIN rooms, u \in Users : RemoveParticipant(r, u)
    \/ \E r \in DOMAIN rooms, u \in Users, role \in Roles : UpdateParticipantRole(r, u, role)

SpecLimit == InitAdd /\ [][NextLimit]_vars

\* Groups: the state after A has authenticated on c1 and then on c2 and B on
\* c3 (the Map entry of A names c2, its latest socket), from which the
\* connections disconnect, create groups, join, leave and send, and the
\* participants of the rooms are changed by the methods of Room.
InitGroups ==
    /\ rooms = << NewRoom("group", <<Participant("A", "admin"), Participant("B", "member")>>, "A"),
                  NewRoom("group", <<Participant("B", "admin"), Participant("A", "member")>>, "B") >>
    /\ messages = << >>
    /\ userStatus = [u \in Users |-> IF u = "C" THEN "offline" ELSE "online"]
    /\ connectedUsers = [u \in Users |->
          CASE u = "A" -> [socketId |-> "c2", joinedRooms |-> {1, 2}]
            [] u = "B" -> [socketId |-> "c3", joinedRooms |-> {1, 2}]
            [] OTHER -> NoEntry]
    /\ sockUser = [c \in Conns |-> IF c \in {"c1", "c2", "c3"} THEN Cred(c) ELSE NoUser]
    /\ connOpen = [c \in Conns |-> TRUE]
    /\ socketRooms = [c \in Conns |-> IF c \in {"c1", "c2", "c3"} THEN {1, 2} ELSE {}]
    /\ inbox = [c \in Conns |->
          CASE c = "c1" -> << [Ev("authenticated", 0, "A", "") EXCEPT !.list = <<1, 2>>],
                              Ev("user_status_changed", 1, "A", "online"),
                              Ev("user_status_changed", 2, "A", "online"),
                              Ev("user_status_changed", 1, "B", "online"),
                              Ev("user_status_changed", 2, "B", "online") >>
            [] c = "c2" -> << [Ev("authenticated", 0, "A", "") EXCEPT !.list = <<1, 2>>],
                              Ev("user_status_changed", 1, "B", "online"),
                              Ev("user_status_changed", 2, "B", "online") >>
            [] c = "c3" -> << [Ev("authenticated", 0, "B", "") EXCEPT !.list = <<1, 2>>] >>
            [] OTHER -> << >>]
    /\ tasks = {}
    /\ nEvents = MaxEvents - MaxGroupEvents
    /\ failures = 0
    /\ now = 0
    /\ responses = << >>
    /\ overlap = FALSE
    /\ ret = "none"

NextGroups ==
    \/ \E c \in {"c1", "c2", "c3"} : Disconnect(c)
    \/ \E t \in tasks : DisconnectSetOffline(t)
    \/ \E c \in {"c1", "c2", "c3"}, name \in Names, pids \in ParticipantIdLists :
          CreateGroup(c, name, pids)
    \/ \E t \in tasks : CreateGroupFindUsers(t)
    \/ \E t \in tasks : CreateGroupSave(t)
    \/ \E c \in {"c1", "c2", "c3"}, r \in DOMAIN rooms : JoinRoom(c, r)
    \/ \E t \in tasks : JoinRoomFind(t)
    \/ \E t \in tasks : JoinRoomRecent(t)
    \/ \E c \in {"c1", "c2", "c3"}, r \in DOMAIN rooms : LeaveRoom(c, r)
    \/ \E c \in {"c1", "c2", "c3"}, r \in DOMAIN rooms : SendMessage(c, r, Str(0, 2, 0), 0)
    \/ \E t \in tasks : SendMessageFind(t)
    \/ \E t \in tasks : SendMessageSave(t)
    \/ \E t \in tasks : SendMessageSaveRoom(t)
    \/ \E r \in DOMAIN rooms, u \in Users : AddParticipant(r, u, "member")
    \/ \E r \in DOMAIN rooms, u \in Users : RemoveParticipant(r, u)

SpecGroups == InitGroups /\ [][NextGroups]_vars

-----------------------------------------------------------------------------
(* routes/auth.js: POST /login, POST /logout, PATCH /status *)

Statuses == {"online", "offline", "away"}

\* POST /login with an identifier and a password (pw: the password is the
\* one of the identified user): the handler suspends on
\* User.findByEmailOrUsername.
Login(id, pw) ==
    /\ nEvents < MaxEvents
    /\ Cardinality(tasks) < MaxTasks
    /\ nEvents' = nEvents + 1
    /\ Suspend([Task(nEvents + 1, "login", "http", "findUser")
                  EXCEPT !.user = id, !.other = IF pw THEN id ELSE NoUser])
    /\ UNCHANGED <<storeVars, socketVars, failures, now, responses, overlap, ret>>

\* await User.findByEmailOrUsername(identifier): 401 when there is no such
\* user; otherwise the handler suspends on user.comparePassword.
LoginFind(t) ==
    /\ t \in tasks /\ t.op = "login" /\ t.pc = "findUser"
    /\ \E ok \in Outcomes :
         /\ Failed(ok)
         /\ IF ~ok
            THEN /\ Finish(t)
                 /\ responses' = Append(responses, Response(t.seq, t.user, NoUser, 500, 0, FALSE))
            ELSE IF t.user \notin Users
            THEN /\ Finish(t)
                 /\ responses' = Append(responses, Response(t.seq, t.user, NoUser, 401, 0, FALSE))
            ELSE /\ Resume(t, "compare")
                 /\ responses' = responses
    /\ UNCHANGED <<storeVars, socketVars, nEvents, now, overlap, ret>>

\* await user.comparePassword(password): 401 on a wrong password; otherwise
\* status and lastSeen are set on the document and the handler suspends on
\* user.save().
LoginCompare(t) ==
    /\ t \in tasks /\ t.op = "login" /\ t.pc = "compare"
    /\ IF t.other # t.user
       THEN /\ Finish(t)
            /\ responses' = Append(responses, Response(t.seq, t.user, NoUser, 401, 0, FALSE))
       ELSE /\ tasks' = (tasks \ {t}) \cup {[t EXCEPT !.pc = "save", !.status = "online"]}
            /\ responses' = responses
    /\ UNCHANGED <<storeVars, socketVars, nEvents, failures, now, overlap, ret>>

\* POST /logout of a request that passed the authenticate middleware as u:
\* status 'offline' is set on req.user and the handler suspends on save().
Logout(u) ==
    /\ nEvents < MaxEvents
    /\ Cardinality(tasks) < MaxTasks
    /\ nEvents' = nEvents + 1
    /\ Suspend([Task(nEvents + 1, "logout", "http", "save")
                  EXCEPT !.user = u, !.status = "offline"])
    /\ UNCHANGED <<storeVars, socketVars, failures, now, responses, overlap, ret>>

\* PATCH /status of a request that passed the authenticate middleware as u:
\* 400 unless the status is one of the three; otherwise it is set on
\* req.user and the handler suspends on save().
PatchStatus(u, st) ==
    /\ nEvents < MaxEvents
    /\ nEvents' = nEvents + 1
    /\ IF st \notin Statuses
       THEN /\ tasks' = tasks
            /\ responses' = Append(responses, Response(nEvents + 1, u, NoUser, 400, 0, FALSE))
       ELSE /\ Cardinality(tasks) < MaxTasks
            /\ Suspend([Task(nEvents + 1, "status", "http", "save")
                          EXCEPT !.user = u, !.status = st])
            /\ responses' = responses
    /\ UNCHANGED <<storeVars, socketVars, failures, now, overlap, ret>>

\* await user.save() of the three handlers: the status set on the document
\* is written and the request is answered.
UserSave(t) ==
    /\ t \in tasks /\ t.op \in {"login", "logout", "status"} /\ t.pc = "save"
    /\ Finish(t)
    /\ \E ok \in Outcomes :
         /\ Failed(ok)
         /\ IF ~ok
            THEN /\ userStatus' = userStatus
                 /\ responses' = Append(responses, Response(t.seq, t.user, NoUser, 500, 0, FALSE))
            ELSE /\ userStatus' = [userStatus EXCEPT ![t.user] = t.status]
                 /\ responses' = Append(responses, Response(t.seq, t.user, NoUser, 200, 0, FALSE))
    /\ UNCHANGED <<rooms, messages, socketVars, nEvents, now, overlap, ret>>

\* Presence with the REST routes: connections come and go, users log in and
\* out and set their status; the store does not fail.
InitRest ==
    /\ InitStore
    /\ NoConnections
    /\ tasks = {}
    /\ nEvents = MaxEvents - MaxRestEvents
    /\ failures = MaxFailures
    /\ now = 0
    /\ responses = << >>
    /\ overlap = FALSE
    /\ ret = "none"

NextRest ==
    \/ \E c \in {"c1", "c3"} : Authenticate(c)
    \/ \E c \in {"c1", "c3"} : Disconnect(c)
    \/ \E t \in tasks : AuthSetOnline(t)
    \/ \E t \in tasks : AuthFindRooms(t)
    \/ \E t \in tasks : DisconnectSetOffline(t)
    \/ \E id \in {"A", "B", UnknownId}, pw \in BOOLEAN : Login(id, pw)
    \/ \E t \in tasks : LoginFind(t)
    \/ \E t \in tasks : LoginCompare(t)
    \/ \E u \in {"A", "B"} : Logout(u)
    \/ \E u \in {"A", "B"}, st \in Statuses \cup {"busy"} : PatchStatus(u, st)
    \/ \E t \in tasks : UserSave(t)

SpecRest == InitRest /\ [][NextRest]_vars

-----------------------------------------------------------------------------
(* C1: delivery of new_message *)

IsParticipant(r, u) == r \in DOMAIN rooms /\ HasUser(rooms[r].participants, u)

Subscribed(d, r) == connOpen[d] /\ r \in socketRooms[d]

SendPending(d, r, x, u) ==
    \E t \in tasks :
       /\ t.op = "send_message" /\ t.pc = "findRoom"
       /\ t.room = r /\ t.content = x /\ t.user = u
       /\ IsParticipant(r, u)
       /\ Subscribed(d, r)

Received(d, r, x, u) ==
    \E i \in DOMAIN inbox[d] :
       /\ inbox[d][i].type = "new_message"
       /\ inbox[d][i].room = r
       /\ inbox[d][i].user = u
       /\ inbox[d][i].content = Str(0, x.core, 0)

SendDelivers ==
    \A t \in tasks :
       (/\ t.op = "send_message"
        /\ IsParticipant(t.room, t.user)
        /\ t \notin tasks'
        /\ failures' = failures)
       => \/ \E t2 \in tasks' : t2.seq = t.seq
          \/ /\ t.pc = "saveRoom"
             /\ messages[t.msg].content = Str(0, t.content.core, 0)
             /\ messages[t.msg].sender = t.user
             /\ \A d \in Conns :
                   Subscribed(d, t.room) =>
                      inbox'[d] = Append(inbox[d],
                         [type |-> "new_message", room |-> t.room, user |-> t.user,
                          info |-> "", msg |-> t.msg,
                          content |-> Str(0, t.content.core, 0),
                          list |-> << >>, ids |-> {}])

LiveSeqs == (MaxEvents - MaxLiveEvents + 1) .. MaxEvents

-----------------------------------------------------------------------------
(* C2, C3: a connection without a user *)

\* The step receives join_room, leave_room, send_message, typing,
\* mark_messages_read, create_group or get_room_online_users from c.
RepliedEvent(c) ==
    \/ \E r \in RoomIds : JoinRoom(c, r)
    \/ \E r \in RoomIds : LeaveRoom(c, r)
    \/ \E r \in RoomIds, x \in Contents : SendMessage(c, r, x, 0)
    \/ \E name \in Names, pids \in ParticipantIdLists : CreateGroup(c, name, pids)

SilentEvent(c) ==
    \/ \E r \in RoomIds : Typing(c, r)
    \/ \E r \in RoomIds, ids \in SUBSET (DOMAIN messages) : MarkMessagesRead(c, r, ids)
    \/ \E r \in RoomIds : GetRoomOnlineUsers(c, r)

Unauthenticated(c) == sockUser[c] = NoUser /\ sockUser'[c] = NoUser

\* C2: an event of a connection that has not authenticated emits nothing to
\* any other connection, changes neither the registry (the Map and the
\* Socket.IO rooms) nor the store, and leaves no handler in flight.
C2_UnauthenticatedChangesNothing ==
    [][\A c \in Conns :
         (Unauthenticated(c) /\ (RepliedEvent(c) \/ SilentEvent(c))) =>
            /\ \A d \in Conns \ {c} : inbox'[d] = inbox[d]
            /\ connectedUsers' = connectedUsers
            /\ socketRooms' = socketRooms
            /\ rooms' = rooms /\ messages' = messages /\ userStatus' = userStatus
            /\ tasks' = tasks]_vars

C2_Witness ==
    /\ \E i \in DOMAIN inbox["c4"] : inbox["c4"][i] = ErrorEv("Not authenticated")
    /\ HasEntry("A") /\ socketRooms["c1"] # {}

-----------------------------------------------------------------------------
(* C9: invalid content *)

\* C9: send_message with content longer than 1000 characters or empty after
\* trim appends one error event to the caller's events and nothing to anyone
\* else's, persists no message, leaves every room (lastActivity included)
\* as it is and leaves no handler in flight.
C9_InvalidContentRejected ==
    [][\A c \in Conns, r \in RoomIds, x \in Contents :
         (/\ SendMessage(c, r, x, 0)
          /\ (x.lead + x.core + x.trail > 1000 \/ x.core = 0)) =>
            /\ \E text \in {"Not authenticated", "Message content is required",
                            "Message too long"} :
                  inbox'[c] = Append(inbox[c], ErrorEv(text))
            /\ \A d \in Conns \ {c} : inbox'[d] = inbox[d]
            /\ messages' = messages
            /\ rooms' = rooms
            /\ tasks' = tasks]_vars

C9_Witness ==
    \E c \in Conns :
       /\ sockUser[c] # NoUser
       /\ \E i \in DOMAIN inbox[c] : inbox[c][i] = ErrorEv("Message too long")
       /\ \E i \in DOMAIN inbox[c] : inbox[c][i] = ErrorEv("Message content is required")

-----------------------------------------------------------------------------
(* C8, C10: presence and the registry *)

OfflineCount(q, u, r) ==
    Cardinality({i \in DOMAIN q :
        /\ q[i].type = "user_status_changed" /\ q[i].info = "offline"
        /\ q[i].user = u /\ q[i].room = r})

\* C8: when the disconnect handler of an identity's only connection ends (no
\* other handler of the identity in flight, no store failure), the stored
\* status is offline and, for every room the identity is a participant of,
\* every connection subscribed to the room has received exactly one more
\* user_status_changed{offline} broadcast to that room.
C8_OfflineOncePerRoom ==
    [][\A t \in tasks :
         (/\ t.op = "disconnect" /\ t \notin tasks'
          /\ \A c \in Conns : ~(connOpen[c] /\ sockUser[c] = t.user)
          /\ \A t2 \in tasks \ {t} : t2.user # t.user) =>
            /\ userStatus'[t.user] = "offline"
            /\ \A r \in DOMAIN rooms :
                  IsParticipant(r, t.user) =>
                     \A d \in Conns :
                        Subscribed(d, r) =>
                           OfflineCount(inbox'[d], t.user, r) =
                              OfflineCount(inbox[d], t.user, r) + 1]_vars

\* The connections the Map holds for an identity
RegistryConnections(u) == IF HasEntry(u) THEN {connectedUsers[u].socketId} ELSE {}

\* C10: the registry records every open authenticated connection of an
\* identity, and group_created reaches every open connection of every
\* participant of the new group.
C10_AllConnectionsRecorded ==
    /\ [](\A c \in Conns :
            (connOpen[c] /\ sockUser[c] # NoUser) => c \in RegistryConnections(sockUser[c]))
    /\ [][\A t \in tasks :
            (t.op = "create_group" /\ t.pc = "save" /\ t \notin tasks' /\ failures' = failures) =>
               \A c \in Conns :
                  (connOpen[c] /\ sockUser[c] # NoUser
                     /\ HasUser(rooms'[Len(rooms')].participants, sockUser[c])) =>
                        /\ Len(inbox'[c]) > Len(inbox[c])
                        /\ inbox'[c][Len(inbox'[c])].type = "group_created"]_vars

-----------------------------------------------------------------------------
(* C6: private rooms *)

-----------------------------------------------------------------------------
(* C7: read receipts *)

\* C7: a message's readBy holds at most one entry per user.
C7_OneReceiptPerUser ==
    \A m \in DOMAIN messages, u \in Users :
       Cardinality({i \in DOMAIN messages[m].readBy : messages[m].readBy[i].user = u}) <= 1

-----------------------------------------------------------------------------
(* C4, C5: createPrivateRoom *)

Ok(i) == responses[i].status = 200
SamePair(i, j) ==
    {responses[i].me, responses[i].other} = {responses[j].me, responses[j].other}

\* C4: when no two requests overlap, every later successful call for an
\* unordered pair returns the room id the first one returned and creates
\* nothing, and a created room has exactly the caller and the other user,
\* both with role member, and the caller as creator.
C4_SequentialIdempotent ==
    ~overlap =>
       /\ \A i, j \in DOMAIN responses :
             (i < j /\ Ok(i) /\ Ok(j) /\ SamePair(i, j)) =>
                /\ responses[j].room = responses[i].room
                /\ ~responses[j].created
       /\ \A i \in DOMAIN responses :
             responses[i].created =>
                /\ rooms[responses[i].room].type = "private"
                /\ rooms[responses[i].room].participants =
                      << Participant(responses[i].me, "member"),
                         Participant(responses[i].other, "member") >>
                /\ rooms[responses[i].room].creator = responses[i].me
                /\ Len(rooms) = 1 + Cardinality({k \in DOMAIN responses : responses[k].created})

C4_Witness ==
    /\ ~overlap
    /\ \E i, j \in DOMAIN responses :
          /\ i < j /\ responses[i].created /\ Ok(j)
          /\ responses[j].me = responses[i].other
          /\ responses[j].other = responses[i].me
          /\ responses[j].room = responses[i].room

\* C5: whatever the interleaving of the lookups and the saves, all calls for
\* an unordered pair return the same room id and the collection holds at most
\* one private room for the pair.
C5_ConcurrentNoDuplicate ==
    /\ \A i, j \in DOMAIN responses :
          (Ok(i) /\ Ok(j) /\ SamePair(i, j)) => responses[i].room = responses[j].room
    /\ \A r, s \in DOMAIN rooms :
          (r # s /\ rooms[r].type = "private" /\ rooms[s].type = "private")
             => ParticipantSet(rooms[r]) # ParticipantSet(rooms[s])

-----------------------------------------------------------------------------
(* C11, C19: several connections of one identity *)

\* The open connections whose socket.user is u
LiveConnections(u) == {c \in Conns : connOpen[c] /\ sockUser[c] = u}

OfflineEvents(q, u) ==
    Cardinality({i \in DOMAIN q :
        /\ q[i].type = "user_status_changed" /\ q[i].info = "offline"
        /\ q[i].user = u})

\* C11: when the disconnect handler of a connection ends while another
\* connection of the same identity is open and no other handler of the
\* identity is in flight, the stored status of the identity stays as it is,
\* no connection receives user_status_changed{offline} for the identity and
\* the Map entry of the identity stays as it is.
C11_OfflineOnlyOnLastDisconnect ==
    [][\A t \in tasks :
         (/\ t.op = "disconnect" /\ t \notin tasks'
          /\ LiveConnections(t.user) # {}
          /\ \A t2 \in tasks \ {t} : t2.user # t.user) =>
            /\ userStatus'[t.user] = userStatus[t.user]
            /\ \A d \in Conns :
                  OfflineEvents(inbox'[d], t.user) = OfflineEvents(inbox[d], t.user)
            /\ connectedUsers'[t.user] = connectedUsers[t.user]]_vars

\* C19: whenever no handler is in flight, an identity has a Map entry exactly
\* when it has an open authenticated connection; the entry then names one of
\* these connections and the stored status of the identity is online.
C19_RegistryMatchesLiveConnections ==
    tasks = {} =>
       \A u \in Users :
          /\ HasEntry(u) <=> LiveConnections(u) # {}
          /\ HasEntry(u) =>
                /\ connectedUsers[u].socketId \in LiveConnections(u)
                /\ userStatus[u] = "online"

-----------------------------------------------------------------------------
(* C17: authenticate with a credential that does not verify *)

-----------------------------------------------------------------------------
(* C16: the life of a connection *)

\* The transport of c is closed and every handler of c has run to its end.
Closed(c) == ~connOpen[c] /\ \A t \in tasks : t.conn # c

\* C16: a closed connection is in no Map entry and in no fan-out set; it
\* stays closed, is not entered into the Map again and receives no further
\* event; and a connection that has a user keeps it.
C16_ClosedIsTerminal ==
    /\ [](\A c \in Conns :
            Closed(c) =>
               /\ \A u \in Users : connectedUsers[u].socketId # c
               /\ \A r \in DOMAIN rooms : c \notin InRoom(r))
    /\ [][\A c \in Conns :
            /\ (~connOpen[c] => ~connOpen'[c])
            /\ (sockUser[c] # NoUser => sockUser'[c] = sockUser[c])
            /\ (Closed(c) => inbox'[c] = inbox[c])]_vars

-----------------------------------------------------------------------------
(* C13: store failures *)

\* The step in which a store call of handler t throws: the handler ends.
StoreCallFails(t) ==
    /\ failures' = failures + 1
    /\ t \in tasks
    /\ \A t2 \in tasks' : t2.seq # t.seq

\* C13: when a store call of a send_message, mark_messages_read or
\* create_group handler throws, the step stores nothing, no connection but
\* the caller receives anything, and the caller receives nothing or one
\* 'Failed to ...' error.
C13_NoNotificationOnFailure ==
    [][\A t \in tasks :
         (/\ t.op \in {"send_message", "mark_messages_read", "create_group"}
          /\ StoreCallFails(t)) =>
            /\ messages' = messages /\ rooms' = rooms
            /\ connectedUsers' = connectedUsers /\ socketRooms' = socketRooms
            /\ \A d \in Conns \ {t.conn} : inbox'[d] = inbox[d]
            /\ \/ inbox'[t.conn] = inbox[t.conn]
               \/ \E text \in {"Failed to send message", "Failed to create group"} :
                     inbox'[t.conn] = Append(inbox[t.conn], ErrorEv(text))]_vars

C13_Witness ==
    /\ failures = 1
    /\ Len(messages) = 1
    /\ rooms[messages[1].room].lastActivity = 0
    /\ \E c \in Conns :
          /\ c \in InRoom(messages[1].room)
          /\ inbox[c][Len(inbox[c])] = ErrorEv("Failed to send message")
    /\ \A c \in Conns : \A i \in DOMAIN inbox[c] : inbox[c][i].type # "new_message"

-----------------------------------------------------------------------------
(* C12, C15, C20, C14: rooms *)

\* The events the step delivers to d
NewEvents(d) == {inbox'[d][i] : i \in (Len(inbox[d]) + 1) .. Len(inbox'[d])}

\* C12: a step that delivers new_message delivers a message that was stored
\* by an earlier step; a step that delivers user_joined_room ends a join_room
\* handler that an earlier step has subscribed (a join_room handler gets past
\* its room lookup only by subscribing the connection, and that step delivers
\* nothing); a step that delivers user_left_room is the leave_room of a
\* connection that the same step has unsubscribed.
C12_StateBeforeNotification ==
    [][/\ \A d \in Conns : \A e \in NewEvents(d) :
            /\ e.type = "new_message" =>
                  /\ e.msg \in DOMAIN messages
                  /\ messages[e.msg].content = e.content
                  /\ messages[e.msg].sender = e.user
                  /\ messages[e.msg].room = e.room
            /\ e.type = "user_joined_room" =>
                  \E t \in tasks :
                     /\ t.op = "join_room" /\ t.pc = "recent"
                     /\ t.user = e.user /\ t.room = e.room
                     /\ t \notin tasks'
            /\ e.type = "user_left_room" =>
                  \E c \in Conns :
                     /\ LeaveRoom(c, e.room)
                     /\ sockUser'[c] = e.user
                     /\ e.room \notin socketRooms'[c]
                     /\ (HasEntry(e.user) => e.room \notin connectedUsers'[e.user].joinedRooms)
       /\ \A t \in tasks :
            (t.op = "join_room" /\ t.pc = "findRoom"
               /\ \E t2 \in tasks' : t2.seq = t.seq /\ t2.pc = "recent") =>
                  /\ t.room \in socketRooms'[t.conn]
                  /\ inbox' = inbox]_vars

C12_Witness ==
    /\ \E i \in DOMAIN inbox["c3"] : inbox["c3"][i] = Ev("user_left_room", 1, "A", "")
    /\ \E i \in DOMAIN inbox["c3"] : inbox["c3"][i] = Ev("user_joined_room", 1, "A", "")
    /\ 1 \in socketRooms["c1"]

\* The participant list of room r does not hold user u
NotListed(r, u) ==
    \A i \in DOMAIN rooms[r].participants : rooms[r].participants[i].user # u

\* C15: when the room lookup of a join_room handler returns a room whose
\* participant list does not hold the caller's identity, the handler ends:
\* the caller receives the error 'Access denied to room' and nothing else,
\* nobody else receives anything, and the caller is not subscribed to the
\* room, neither in Socket.IO nor in the Map.
C15_JoinOnlyForParticipants ==
    [][\A t \in tasks :
         (/\ t.op = "join_room" /\ t.pc = "findRoom"
          /\ t.room \in DOMAIN rooms /\ NotListed(t.room, t.user)
          /\ t \notin tasks' /\ failures' = failures) =>
            /\ \A t2 \in tasks' : t2.seq # t.seq
            /\ inbox'[t.conn] = Append(inbox[t.conn], ErrorEv("Access denied to room"))
            /\ \A d \in Conns \ {t.conn} : inbox'[d] = inbox[d]
            /\ socketRooms' = socketRooms /\ t.room \notin socketRooms'[t.conn]
            /\ connectedUsers' = connectedUsers
            /\ t.room \notin connectedUsers'[t.user].joinedRooms]_vars

C15_Witness ==
    /\ inbox["c3"][Len(inbox["c3"])] = ErrorEv("Access denied to room")
    /\ tasks = {}
    /\ 3 \notin socketRooms["c3"]

\* C20: when a send_message handler stores its message or broadcasts it, no
\* send_message handler of the same connection for the same room that was
\* received earlier is still in flight.
C20_SendsInOrder ==
    [][\A t \in tasks :
         (/\ t.op = "send_message" /\ t.pc \in {"save", "saveRoom"}
          /\ t \notin tasks' /\ failures' = failures) =>
            ~ \E t2 \in tasks :
                 /\ t2.op = "send_message" /\ t2.conn = t.conn
                 /\ t2.room = t.room /\ t2.seq < t.seq]_vars

\* C14: a step that delivers an error event to a connection delivers nothing
\* else to anyone and changes neither the connections, the Map, the
\* Socket.IO rooms nor the store; and a connection whose last two events are
\* room_left{r} and the error 'Failed to join room', with no handler in
\* flight, is not subscribed to r.
C14_ErrorsChangeNothing ==
    /\ [](\A c \in Conns, r \in DOMAIN rooms :
            (/\ tasks = {}
             /\ Len(inbox[c]) >= 2
             /\ inbox[c][Len(inbox[c]) - 1] = Ev("room_left", r, NoUser, "")
             /\ inbox[c][Len(inbox[c])] = ErrorEv("Failed to join room")) =>
                r \notin socketRooms[c])
    /\ [][\A c \in Conns :
            (\E e \in NewEvents(c) : e.type = "error") =>
               /\ Len(inbox'[c]) = Len(inbox[c]) + 1
               /\ \A d \in Conns \ {c} : inbox'[d] = inbox[d]
               /\ connOpen' = connOpen /\ sockUser' = sockUser
               /\ connectedUsers' = connectedUsers /\ socketRooms' = socketRooms
               /\ rooms' = rooms /\ messages' = messages /\ userStatus' = userStatus]_vars

-----------------------------------------------------------------------------
(* C18: a successful authenticate *)

\* The rooms with identity u among their participants
RoomsOf(u) == {r \in DOMAIN rooms : IsParticipant(r, u)}

\* C18: the arrival of authenticate with a token that verifies enters the
\* connection into the Map.  When its handler then ends with 'authenticated'
\* (no other handler of the identity in flight, the Map entry of the
\* identity still the connection's), the connection
\* is subscribed to exactly the rooms of the identity, in Socket.IO and in
\* the Map, the stored status was already online and still is, the caller
\* receives authenticated{user, rooms} and nothing else, and every other
\* connection receives user_status_changed{online} once for each of these
\* rooms it is subscribed to and nothing else.
C18_AuthenticateEffects ==
    [][/\ \A c \in Conns :
            (Cred(c) \in Users /\ Authenticate(c)) =>
               connectedUsers'[Cred(c)].socketId = c
       /\ \A t \in tasks :
            (/\ t.op = "authenticate" /\ t.pc = "findRooms" /\ t \notin tasks'
             /\ \E e \in NewEvents(t.conn) : e.type = "authenticated"
             /\ connectedUsers[t.user].socketId = t.conn
             /\ \A t2 \in tasks \ {t} : t2.user # t.user) =>
               /\ socketRooms'[t.conn] = RoomsOf(t.user)
               /\ connectedUsers'[t.user] =
                     [socketId |-> t.conn, joinedRooms |-> RoomsOf(t.user)]
               /\ userStatus[t.user] = "online" /\ userStatus'[t.user] = "online"
               /\ Len(inbox'[t.conn]) = Len(inbox[t.conn]) + 1
               /\ \A e \in NewEvents(t.conn) :
                     /\ e.type = "authenticated" /\ e.user = t.user
                     /\ SeqToSet(e.list) = RoomsOf(t.user)
               /\ \A d \in Conns \ {t.conn} :
                     /\ Len(inbox'[d]) - Len(inbox[d]) =
                           Cardinality({r \in RoomsOf(t.user) : Subscribed(d, r)})
                     /\ \A r \in RoomsOf(t.user) :
                           Subscribed(d, r) =>
                              Ev("user_status_changed", r, t.user, "online") \in NewEvents(d)]_vars

C18_Witness ==
    /\ Len(rooms) = 3 /\ ~IsParticipant(3, "B")
    /\ connectedUsers["B"] = [socketId |-> "c3", joinedRooms |-> {1, 2}]
    /\ socketRooms["c3"] = {1, 2}
    /\ userStatus["B"] = "online"
    /\ inbox["c3"] = << [Ev("authenticated", 0, "B", "") EXCEPT !.list = <<1, 2>>] >>
    /\ \E i \in DOMAIN inbox["c1"] :
          inbox["c1"][i] = Ev("user_status_changed", 2, "B", "online")

-----------------------------------------------------------------------------
(* C21: a connection closes while one of its handlers is in flight *)

\* The step ends handler t: no handler with its sequence number is left
Ends(t) == t \in tasks /\ \A t2 \in tasks' : t2.seq # t.seq

\* C21: when the last handler in flight of a closed connection ends, no Map
\* entry names the connection and, when the identity has no open connection
\* and no handler in flight, the stored status of the identity is offline.
C21_CleanAfterDisconnect ==
    [][\A t \in tasks :
         (/\ Ends(t)
          /\ ~connOpen[t.conn]
          /\ \A t2 \in tasks' : t2.conn # t.conn) =>
            /\ \A u \in Users : connectedUsers'[u].socketId # t.conn
            /\ (/\ LiveConnections(t.user) = {}
                /\ \A t2 \in tasks' : t2.user # t.user) =>
                  userStatus'[t.user] = "offline"]_vars

-----------------------------------------------------------------------------
(* C22: concurrent addParticipant *)

Occurrences(parts, u) == Cardinality({i \in DOMAIN parts : parts[i].user = u})

\* C22: whatever the interleaving of addParticipant calls on separately
\* loaded copies of a room, the stored participant list holds no user twice
\* and is never longer than settings.maxParticipants.
C22_AddParticipantLinearizable ==
    \A r \in DOMAIN rooms :
       /\ \A u \in Users : Occurrences(rooms[r].participants, u) <= 1
       /\ Len(rooms[r].participants) <= rooms[r].maxParticipants

-----------------------------------------------------------------------------
(* C23: presence and the connection count *)

\* C23: whenever no handler is in flight, the stored status of an identity
\* is online when it has an open authenticated connection and offline when
\* it has none.
C23_PresenceFollowsConnections ==
    tasks = {} =>
       \A u \in Users :
          userStatus[u] = IF LiveConnections(u) # {} THEN "online" ELSE "offline"

-----------------------------------------------------------------------------
(* C24: the rooms a presence change is broadcast to *)

\* C24: when the disconnect handler of the last open connection of an
\* identity, the one the Map holds for it, writes the status offline (no
\* other handler of the identity in flight), every other connection subscribed to a room the identity is a
\* participant of receives user_status_changed{offline} for that room,
\* whether or not the Map entry still lists the room.
C24_OfflineToDurableRooms ==
    [][\A t \in tasks :
         (/\ t.op = "disconnect" /\ Ends(t) /\ failures' = failures
          /\ connectedUsers[t.user].socketId = t.conn
          /\ LiveConnections(t.user) = {}
          /\ \A t2 \in tasks \ {t} : t2.user # t.user) =>
            \A r \in RoomsOf(t.user) : \A d \in Conns \ {t.conn} :
               Subscribed(d, r) =>
                  Ev("user_status_changed", r, t.user, "offline") \in NewEvents(d)]_vars

-----------------------------------------------------------------------------
(* C25: the order of the checks of send_message *)

\* C25 as claimed: send_message of an authenticated connection with content that is
\* empty after trimming or longer than 1000 characters, for a room that
\* does not exist or does not list the caller, is not answered with one of
\* the two content errors.
C25_RoomCheckedBeforeContent ==
    [][\A c \in Conns, r \in RoomIds, x \in Contents :
         (/\ SendMessage(c, r, x, 0)
          /\ sockUser'[c] # NoUser
          /\ (x.lead + x.core + x.trail > 1000 \/ x.core = 0)
          /\ ~IsParticipant(r, sockUser'[c])) =>
            \A e \in NewEvents(c) :
               e.info \notin {"Message content is required", "Message too long"}]_vars

\* C25, amended: send_message checks the user, then the content, then the
\* room.  With content that is empty after trimming or longer than 1000
\* characters an authenticated caller receives the content error and the
\* room is never looked up; a handler that does look up the room carries
\* valid content, and it answers a room that does not exist with 'Room not
\* found' and a room that does not list the caller with 'Access denied to
\* room'.
C25_ContentCheckedBeforeRoom ==
    /\ [](\A t \in tasks :
            t.op = "send_message" =>
               /\ t.content.core > 0
               /\ t.content.lead + t.content.core + t.content.trail <= 1000)
    /\ [][/\ \A c \in Conns, r \in RoomIds, x \in Contents :
               (/\ SendMessage(c, r, x, 0)
                /\ sockUser'[c] # NoUser
                /\ (x.lead + x.core + x.trail > 1000 \/ x.core = 0)) =>
                  /\ inbox'[c] = Append(inbox[c],
                        ErrorEv(IF x.core = 0 THEN "Message content is required"
                                ELSE "Message too long"))
                  /\ tasks' = tasks
          /\ \A t \in tasks :
               (/\ t.op = "send_message" /\ t.pc = "findRoom"
                /\ ~IsParticipant(t.room, t.user)
                /\ connOpen[t.conn]
                /\ t \notin tasks' /\ failures' = failures) =>
                  /\ Ends(t)
                  /\ inbox'[t.conn] = Append(inbox[t.conn],
                        ErrorEv(IF t.room \in DOMAIN rooms THEN "Access denied to room"
                                ELSE "Room not found"))]_vars

C25_Witness ==
    /\ tasks = {} /\ messages = << >>
    /\ nEvents = MaxEvents
    /\ inbox["c1"][Len(inbox["c1"])] = ErrorEv("Message too long")
    /\ inbox["c3"][Len(inbox["c3"])] = ErrorEv("Access denied to room")

-----------------------------------------------------------------------------
(* C26: a room id that no room has *)

\* The step delivers nothing to a connection other than c and changes
\* neither the Map, the Socket.IO rooms nor the store
NothingBeyond(c) ==
    /\ \A d \in Conns \ {c} : inbox'[d] = inbox[d]
    /\ connectedUsers' = connectedUsers /\ socketRooms' = socketRooms
    /\ rooms' = rooms /\ messages' = messages /\ userStatus' = userStatus

\* The step answers c with the error 'Room not found' and does nothing else
RoomNotFoundOnly(c) ==
    /\ inbox'[c] = Append(inbox[c], ErrorEv("Room not found"))
    /\ NothingBeyond(c)

\* C26 as claimed: when a handler of an open authenticated connection for a
\* room id that no room has ends without a store failure (leave_room and
\* typing in the step that receives them; join_room, send_message,
\* mark_messages_read and get_room_online_users when their handler ends),
\* the caller receives the error 'Room not found', nobody else receives
\* anything, and the Map, the Socket.IO rooms and the store stay as they are.
C26_UnknownRoomRejected ==
    [][/\ \A c \in Conns, r \in RoomIds :
            (/\ r \notin DOMAIN rooms
             /\ sockUser'[c] # NoUser
             /\ (LeaveRoom(c, r) \/ Typing(c, r))) => RoomNotFoundOnly(c)
       /\ \A t \in tasks :
            (/\ t.op \in {"join_room", "send_message", "mark_messages_read",
                          "get_room_online_users"}
             /\ t.room \notin DOMAIN rooms
             /\ connOpen[t.conn]
             /\ Ends(t) /\ failures' = failures) => RoomNotFoundOnly(t.conn)]_vars

\* C26, amended: for a room id that no room has, join_room and send_message
\* answer the caller with 'Room not found', leave_room answers with
\* room_left, and typing, mark_messages_read and get_room_online_users
\* answer nothing; in every case nobody else receives anything and the Map,
\* the Socket.IO rooms and the store stay as they are.
C26_UnknownRoomNoEffect ==
    [][/\ \A c \in Conns, r \in RoomIds :
            (r \notin DOMAIN rooms /\ sockUser'[c] # NoUser) =>
               /\ LeaveRoom(c, r) =>
                     /\ inbox'[c] = Append(inbox[c], Ev("room_left", r, NoUser, ""))
                     /\ NothingBeyond(c)
               /\ Typing(c, r) =>
                     /\ inbox'[c] = inbox[c]
                     /\ NothingBeyond(c)
       /\ \A t \in tasks :
            (/\ t.room \notin DOMAIN rooms
             /\ connOpen[t.conn]
             /\ Ends(t) /\ failures' = failures) =>
               /\ t.op \in {"join_room", "send_message"} => RoomNotFoundOnly(t.conn)
               /\ t.op \in {"mark_messages_read", "get_room_online_users"} =>
                     /\ inbox'[t.conn] = inbox[t.conn]
                     /\ NothingBeyond(t.conn)]_vars

C26_Witness ==
    /\ sockUser["c1"] = "A" /\ connOpen["c1"]
    /\ \E i \in DOMAIN inbox["c1"] : inbox["c1"][i] = ErrorEv("Room not found")
    /\ \E i \in DOMAIN inbox["c1"] : inbox["c1"][i] = Ev("room_left", 0, NoUser, "")

-----------------------------------------------------------------------------
(* C27: a successful join_room *)

\* The ids of the messages stored for room r
MessagesOf(r) == {i \in DOMAIN messages : messages[i].room = r}

\* C27: when a join_room handler of an open connection ends without a
\* store failure after its participant check, the caller receives
\* room_joined for the room and nothing else; its list holds min(50, n) of
\* the n messages of the room, oldest first, and no message of the room
\* outside the list is newer than one inside; every other connection
\* subscribed to the room receives user_joined_room with the caller's
\* identity and nothing else, and the connections not subscribed receive
\* nothing.
C27_JoinDeliversRecent ==
    [][\A t \in tasks :
         (/\ t.op = "join_room" /\ t.pc = "recent"
          /\ connOpen[t.conn]
          /\ Ends(t) /\ failures' = failures) =>
            /\ Len(inbox'[t.conn]) = Len(inbox[t.conn]) + 1
            /\ \A e \in NewEvents(t.conn) :
                  /\ e.type = "room_joined" /\ e.room = t.room
                  /\ Len(e.list) = IF Cardinality(MessagesOf(t.room)) < 50
                                   THEN Cardinality(MessagesOf(t.room)) ELSE 50
                  /\ \A i \in DOMAIN e.list : e.list[i] \in MessagesOf(t.room)
                  /\ \A i, j \in DOMAIN e.list : i < j => e.list[i] < e.list[j]
                  /\ \A m \in MessagesOf(t.room) \ SeqToSet(e.list) :
                        \A i \in DOMAIN e.list : m < e.list[i]
            /\ \A d \in Conns \ {t.conn} :
                  inbox'[d] = IF Subscribed(d, t.room)
                              THEN Append(inbox[d], Ev("user_joined_room", t.room, t.user, ""))
                              ELSE inbox[d]]_vars

C27_Witness ==
    /\ \E i \in DOMAIN inbox["c1"] :
          /\ inbox["c1"][i].type = "room_joined" /\ inbox["c1"][i].room = 1
          /\ Len(inbox["c1"][i].list) = RecentLimit
          /\ inbox["c1"][i].list[1] = 3
          /\ Cardinality(MessagesOf(1)) = RecentLimit + 1
    /\ inbox["c3"][Len(inbox["c3"])] = Ev("user_joined_room", 1, "A", "")

-----------------------------------------------------------------------------
(* C28: leave_room *)

\* The events that are broadcast to the subscribers of a room
RoomTraffic == {"new_message", "user_typing", "messages_read"}

\* C28: leave_room of an authenticated connection takes the room out of the
\* connection's Socket.IO rooms and out of the Map entry of its identity
\* and leaves every room document as it is; no step delivers new_message,
\* user_typing or messages_read of a room to a connection that is not
\* subscribed to it; and a join_room handler whose caller is listed in the
\* room subscribes the connection when its room lookup succeeds.
C28_LeaveUnsubscribesOnly ==
    [][/\ \A c \in Conns, r \in RoomIds :
            (LeaveRoom(c, r) /\ sockUser'[c] # NoUser) =>
               /\ r \notin socketRooms'[c]
               /\ r \notin connectedUsers'[sockUser'[c]].joinedRooms
               /\ rooms' = rooms
       /\ \A d \in Conns, r \in RoomIds :
            r \notin socketRooms[d] =>
               \A e \in NewEvents(d) : ~(e.type \in RoomTraffic /\ e.room = r)
       /\ \A t \in tasks :
            (/\ t.op = "join_room" /\ t.pc = "findRoom"
             /\ IsParticipant(t.room, t.user)
             /\ t \notin tasks' /\ failures' = failures) =>
               t.room \in socketRooms'[t.conn]]_vars

C28_Witness ==
    /\ tasks = {}
    /\ \E i \in DOMAIN inbox["c3"] : inbox["c3"][i] = Ev("room_left", 1, NoUser, "")
    /\ 1 \notin socketRooms["c3"] /\ 1 \notin connectedUsers["B"].joinedRooms
    /\ IsParticipant(1, "B")
    /\ Len(messages) = RecentLimit + 3
    /\ \E i \in DOMAIN inbox["c1"] :
          inbox["c1"][i].type = "new_message" /\ inbox["c1"][i].room = 1
    /\ \A i \in DOMAIN inbox["c3"] : inbox["c3"][i].type # "new_message"

-----------------------------------------------------------------------------
(* C29: typing *)

\* C29: typing of an authenticated connection changes neither the store,
\* the Map nor the Socket.IO rooms and starts no handler; every other
\* connection subscribed to the room receives user_typing with the caller's
\* identity and nothing else, and the caller and the connections not
\* subscribed receive nothing.
C29_TypingToOthersOnly ==
    [][\A c \in Conns, r \in RoomIds :
         (Typing(c, r) /\ sockUser'[c] # NoUser) =>
            /\ rooms' = rooms /\ messages' = messages /\ userStatus' = userStatus
            /\ connectedUsers' = connectedUsers /\ socketRooms' = socketRooms
            /\ tasks' = tasks
            /\ inbox'[c] = inbox[c]
            /\ \A d \in Conns \ {c} :
                  inbox'[d] = IF Subscribed(d, r)
                              THEN Append(inbox[d], Ev("user_typing", r, sockUser'[c], "true"))
                              ELSE inbox[d]]_vars

C29_Witness ==
    /\ inbox["c1"][Len(inbox["c1"])] = Ev("user_typing", 1, "B", "true")
    /\ 1 \in socketRooms["c3"]
    /\ \A i \in DOMAIN inbox["c3"] : inbox["c3"][i].type # "user_typing"
    /\ nEvents = MaxEvents - MaxRoomEvents + 1

-----------------------------------------------------------------------------
(* C30: mark_messages_read *)

\* The users with a receipt in the readBy of message m
Readers(ms, m) == {ms[m].readBy[i].user : i \in DOMAIN ms[m].readBy}

\* C30: when a mark_messages_read handler ends without a store failure, a
\* message that is named in messageIds, belongs to the room and was not
\* sent by the caller has a receipt of the caller and has gained at most
\* that one receipt; every other message, a message of another room and a
\* message of the caller included, is as it was; every other connection
\* subscribed to the room receives messages_read with the ids and the
\* caller's identity, and the caller and the connections not subscribed
\* receive nothing.
C30_ReceiptsForRoomAndOthers ==
    [][\A t \in tasks :
         (/\ t.op = "mark_messages_read"
          /\ Ends(t) /\ failures' = failures) =>
            /\ DOMAIN messages' = DOMAIN messages
            /\ \A m \in DOMAIN messages :
                  IF m \in t.ids /\ messages[m].room = t.room /\ messages[m].sender # t.user
                  THEN /\ t.user \in Readers(messages', m)
                       /\ \/ messages'[m] = messages[m]
                          \/ messages'[m] = [messages[m] EXCEPT !.readBy =
                                                Append(@, ReadReceipt(t.user, now))]
                  ELSE messages'[m] = messages[m]
            /\ inbox'[t.conn] = inbox[t.conn]
            /\ \A d \in Conns \ {t.conn} :
                  inbox'[d] = IF Subscribed(d, t.room)
                              THEN Append(inbox[d],
                                     [Ev("messages_read", t.room, t.user, "") EXCEPT !.ids = t.ids])
                              ELSE inbox[d]]_vars

C30_Witness ==
    /\ tasks = {}
    /\ messages[1].room = 2 /\ messages[1].readBy = << >>
    /\ messages[3].sender = "A" /\ messages[3].readBy = << >>
    /\ messages[2].room = 1 /\ messages[2].sender = "B"
    /\ Readers(messages, 2) = {"A"}
    /\ inbox["c3"][Len(inbox["c3"])] =
          [Ev("messages_read", 1, "A", "") EXCEPT !.ids = {1, 2, 3}]
    /\ \A i \in DOMAIN inbox["c1"] : inbox["c1"][i].type # "messages_read"

-----------------------------------------------------------------------------
(* C31: replyTo of a message that does not exist *)

\* C31: when a send_message handler whose replyTo names no stored message
\* saves its message, the message is stored with no replyTo (0, null); and
\* the handler then broadcasts it unless a store call fails.
C31_MissingReplyStoredAsNull ==
    [][\A t \in tasks :
         (/\ t.op = "send_message" /\ t.pc = "save"
          /\ t.replyTo \notin DOMAIN messages
          /\ t \notin tasks' /\ failures' = failures) =>
            /\ Len(messages') = Len(messages) + 1
            /\ messages'[Len(messages')].replyTo = 0
            /\ \E t2 \in tasks' : t2.seq = t.seq /\ t2.pc = "saveRoom"]_vars

-----------------------------------------------------------------------------
(* C32: create_group, the name and the participants of the new room *)

\* the users that a list of participants gives a role
WithRole(parts, role) ==
    { parts[i].user : i \in { j \in DOMAIN parts : parts[j].role = role } }

-----------------------------------------------------------------------------
(* C33: who is told of a new group *)

\* C33: the step in which a create_group handler saves its room delivers
\* group_created for the new room to the caller's connection, to a live
\* authenticated connection of every participant added besides the caller
\* that has one, and to no connection of an identity that is not a
\* participant.
C33_GroupCreatedToParticipants ==
    [][\A t \in tasks :
         (/\ t.op = "create_group" /\ t.pc = "save"
          /\ t \notin tasks' /\ failures' = failures) =>
            LET id == Len(rooms')
                told(d) == \E e \in NewEvents(d) :
                              e.type = "group_created" /\ e.room = id
            IN /\ connOpen[t.conn] => told(t.conn)
               /\ \A u \in ParticipantSet(rooms'[id]) \ {t.user} :
                     LiveConnections(u) # {} =>
                        \E d \in LiveConnections(u) : told(d)
               /\ \A d \in Conns : told(d) => HasUser(rooms'[id].participants, sockUser[d])]_vars

-----------------------------------------------------------------------------
(* C34: addParticipant *)

\* C34: addParticipant of a user the room already lists returns
\* AlreadyParticipant, and of a new user to a room whose participants are
\* as many as settings.maxParticipants or more returns
\* ParticipantLimitExceeded; both leave the stored room, its participants
\* and its lastActivity, as it was.  A call that succeeds appends the user
\* with the given role, keeps the other participants and raises
\* lastActivity.
C34_AddParticipantChecks ==
    [][\A r \in DOMAIN rooms, u \in Users, role \in Roles :
         AddParticipant(r, u, role) =>
            /\ HasUser(rooms[r].participants, u) =>
                  ret' = "AlreadyParticipant" /\ rooms' = rooms
            /\ (/\ ~HasUser(rooms[r].participants, u)
                /\ Len(rooms[r].participants) >= rooms[r].maxParticipants) =>
                  ret' = "ParticipantLimitExceeded" /\ rooms' = rooms
            /\ ret' = "ok" =>
                  /\ rooms'[r].participants =
                        Append(rooms[r].participants, Participant(u, role))
                  /\ rooms'[r].lastActivity > rooms[r].lastActivity
                  /\ \A q \in DOMAIN rooms \ {r} : rooms'[q] = rooms[q]]_vars

\* the small group is full and a further addParticipant has been refused
C34_Witness ==
    /\ ret = "ParticipantLimitExceeded"
    /\ Len(rooms[1].participants) = SmallMaxParticipants
    /\ rooms[1].lastActivity = 1

-----------------------------------------------------------------------------
(* C35: removeParticipant and updateParticipantRole *)

\* C35: removeParticipant and updateParticipantRole of a user the room does
\* not list return NotParticipant and leave the stored room, lastActivity
\* included, as it was; of a listed user, a call that succeeds removes the
\* user, or gives the user the new role, and raises lastActivity.
C35_NotParticipantRefused ==
    [][\A r \in DOMAIN rooms, u \in Users :
         /\ RemoveParticipant(r, u) =>
               /\ ~HasUser(rooms[r].participants, u) =>
                     ret' = "NotParticipant" /\ rooms' = rooms
               /\ (HasUser(rooms[r].participants, u) /\ ret' = "ok") =>
                     /\ ~HasUser(rooms'[r].participants, u)
                     /\ rooms'[r].lastActivity > rooms[r].lastActivity
         /\ \A role \in Roles :
               UpdateParticipantRole(r, u, role) =>
                  /\ ~HasUser(rooms[r].participants, u) =>
                        ret' = "NotParticipant" /\ rooms' = rooms
                  /\ (HasUser(rooms[r].participants, u) /\ ret' = "ok") =>
                        /\ Participant(u, role) \in
                              {rooms'[r].participants[i] : i \in DOMAIN rooms'[r].participants}
                        /\ rooms'[r].lastActivity > rooms[r].lastActivity]_vars

-----------------------------------------------------------------------------
(* C36: subscriptions and durable participants *)

\* C36: every open connection subscribed to a room belongs to an identity
\* that the stored room lists as a participant.
C36_SubscribedAreParticipants ==
    \A d \in Conns : \A r \in DOMAIN rooms :
       Subscribed(d, r) => IsParticipant(r, sockUser[d])

-----------------------------------------------------------------------------
(* C37: the participants of a new group are subscribed to it *)

\* C37: when a create_group handler has saved its room, every participant
\* added besides the caller that has a live authenticated connection has one
\* that is subscribed to the new room.
C37_NewGroupSubscribed ==
    [][\A t \in tasks :
         (/\ t.op = "create_group" /\ t.pc = "save"
          /\ t \notin tasks' /\ failures' = failures) =>
            \A u \in ParticipantSet(rooms'[Len(rooms')]) \ {t.user} :
               LiveConnections(u) # {} =>
                  \E d \in LiveConnections(u) : Len(rooms') \in socketRooms'[d]]_vars

-----------------------------------------------------------------------------
(* C38: a user is listed once *)

\* C38: the participant list of a stored room names no user twice.
C38_NoDuplicateParticipants ==
    \A r \in DOMAIN rooms : \A u \in Users :
       Occurrences(rooms[r].participants, u) <= 1

-----------------------------------------------------------------------------
(* C39: the participant limit *)

\* C39: the participant list of a stored room is never longer than the
\* room's settings.maxParticipants.
C39_WithinParticipantLimit ==
    \A r \in DOMAIN rooms :
       Len(rooms[r].participants) <= rooms[r].maxParticipants

====
